---- MODULE Spec2Model ----
(***************************************************************************)
(* Model of the zmh-search worker (src/src/worker/searchWorker.ts): the    *)
(* message handler, the latest-wins search loop, the sharded lazy index    *)
(* loader with its single-flight registry and background preloader, and    *)
(* the synchronous query evaluator with its one-slot result cache.         *)
(*                                                                         *)
(* Text is a sequence of UTF-16 code units (97 = 'a', 45 = '-').           *)
(* A 32-bit tag word is the set of its one-bits (a subset of 0..31); the   *)
(* bitwise AND of two words is the intersection of the sets.               *)
(***************************************************************************)
EXTENDS Integers, Sequences, FiniteSets, TLC

\* ------------------------------------------------------------------------
\* Bounds of the model
\* ------------------------------------------------------------------------
NumShards == 2      \* manifest.assets.indexShards.length
MaxRequests == 2    \* search messages the page sends in one run
MaxCalls == 2       \* loadAsset calls for one asset in one run

NULL == [none |-> TRUE]

Shards == 0 .. (NumShards - 1)

\* ------------------------------------------------------------------------
\* Generic sequence helpers
\* ------------------------------------------------------------------------
Range(s) == { s[i] : i \in DOMAIN s }

RECURSIVE SeqSum(_)
SeqSum(s) == IF s = <<>> THEN 0 ELSE Head(s) + SeqSum(Tail(s))

Min2(a, b) == IF a < b THEN a ELSE b
Max2(a, b) == IF a > b THEN a ELSE b

\* lexicographic order on code-unit sequences (Array.prototype.sort default)
RECURSIVE LexLess(_, _)
LexLess(a, b) ==
  IF a = <<>> THEN b # <<>>
  ELSE IF b = <<>> THEN FALSE
  ELSE IF Head(a) # Head(b) THEN Head(a) < Head(b)
  ELSE LexLess(Tail(a), Tail(b))

RECURSIVE SortTerms(_)
SortTerms(S) ==
  IF S = {} THEN <<>>
  ELSE LET m == CHOOSE x \in S : \A y \in S \ {x} : LexLess(x, y)
       IN  <<m>> \o SortTerms(S \ {m})

RECURSIVE SortInts(_)
SortInts(S) ==
  IF S = {} THEN <<>>
  ELSE LET m == CHOOSE x \in S : \A y \in S : x <= y
       IN  <<m>> \o SortInts(S \ {m})

Reverse(s) == [i \in 1 .. Len(s) |-> s[Len(s) + 1 - i]]

\* ------------------------------------------------------------------------
\* Normalizer and query parser
\* ------------------------------------------------------------------------
\* normText on one code unit: NFKC folds fullwidth latin letters, then
\* toLowerCase, then everything that is not a letter or a number is dropped.
normChar(c) ==
  LET folded == IF c >= 65313 /\ c <= 65338 THEN c - 65248
                ELSE IF c >= 65345 /\ c <= 65370 THEN c - 65248
                ELSE c
      lower  == IF folded >= 65 /\ folded <= 90 THEN folded + 32 ELSE folded
  IN  IF (lower >= 97 /\ lower <= 122) \/ (lower >= 48 /\ lower <= 57)
      THEN <<lower>> ELSE <<>>

RECURSIVE normText(_)
normText(text) ==
  IF text = <<>> THEN <<>> ELSE normChar(Head(text)) \o normText(Tail(text))

\* parseQuery on the whitespace-split, non-empty parts of the raw query
RECURSIVE parseParts(_, _, _)
parseParts(parts, include, exclude) ==
  IF parts = <<>> THEN [include |-> include, exclude |-> exclude]
  ELSE LET p == Head(parts)
           head == p[1]
           isExclude == (head = 45 \/ head = 65293) /\ Len(p) > 1
           body == IF isExclude THEN Tail(p) ELSE p
           n == normText(body)
       IN  IF Len(n) < 2 THEN parseParts(Tail(parts), include, exclude)
           ELSE IF isExclude
                THEN parseParts(Tail(parts), include, exclude \cup {n})
                ELSE parseParts(Tail(parts), include \cup {n}, exclude)

\* variant: a term of both sets stays an include term as well
parseQuery_keepBoth(raw) ==
  LET sets == parseParts(raw, {}, {})
  IN  [include |-> SortTerms(sets.include),
       exclude |-> SortTerms(sets.exclude)]

parseQuery(raw) ==
  LET sets == parseParts(raw, {}, {})
  IN  [include |-> SortTerms(sets.include \ sets.exclude),
       exclude |-> SortTerms(sets.exclude)]

\* uniqNgrams(text, 2): distinct windows in order of first occurrence
RECURSIVE uniqFrom(_, _, _)
uniqFrom(text, i, acc) ==
  IF i > Len(text) - 1 THEN acc
  ELSE LET g == <<text[i], text[i + 1]>>
       IN  uniqFrom(text, i + 1, IF g \in Range(acc) THEN acc ELSE Append(acc, g))

uniqNgrams(text) == IF Len(text) < 2 THEN <<>> ELSE uniqFrom(text, 1, <<>>)

tokenKey(token) == token[1] * 65536 + token[2]


\* ------------------------------------------------------------------------
\* The artifacts: meta rows and the bigram index the builder derives from
\* them.  A corpus is a function docId -> row over 0 .. count-1, rows in
\* ascending external id.
\* ------------------------------------------------------------------------
Row(id, title, aliases, authors, tagLo, tagHi, flags) ==
  [id |-> id, title |-> title, aliases |-> aliases, authors |-> authors,
   tagLo |-> tagLo, tagHi |-> tagHi, flags |-> flags]

\* one doc "abc"
CorpusAbc ==
  0 :> Row(1, <<97, 98, 99>>, <<>>, <<>>, {}, {}, 0)

\* "abcd", "ab", "cd", "bcd"; tag bits 0, 31 (low word), 32, 49 (high word);
\* flag bits hidden, chapter-hidden + need-login, locked
CorpusMain ==
  0 :> Row(10, <<97, 98, 99, 100>>, <<>>, <<>>, {0}, {0}, 0) @@
  1 :> Row(11, <<65, 98>>, <<97, 101>>, <<>>, {0, 31}, {}, 1) @@
  2 :> Row(12, <<99, 100>>, <<>>, <<98, 99>>, {}, {0, 17}, 6) @@
  3 :> Row(13, <<98, 99, 45, 100>>, <<97, 98>>, <<>>, {31}, {17}, 8)

Corpora == <<CorpusAbc, CorpusMain>>

totalCount(c) == Cardinality(DOMAIN Corpora[c])
DocIds(c) == 0 .. (totalCount(c) - 1)
metaIds(c, d) == Corpora[c][d].id
metaTagLo(c, d) == Corpora[c][d].tagLo
metaTagHi(c, d) == Corpora[c][d].tagHi
metaFlags(c, d) == Corpora[c][d].flags

\* builder: the bigrams of a doc are those of its normalized title,
\* aliases and authors
DocKeys(c, d) ==
  LET r == Corpora[c][d]
      grams == Range(uniqNgrams(normText(r.title)))
               \cup Range(uniqNgrams(normText(r.aliases)))
               \cup Range(uniqNgrams(normText(r.authors)))
  IN  { tokenKey(g) : g \in grams }

\* dict.keys: every token of the corpus, ascending
DictKeysOf ==
  [c \in DOMAIN Corpora |-> SortInts(UNION { DocKeys(c, d) : d \in DocIds(c) })]

DictKeys(c) == DictKeysOf[c]

\* the posting list of dict entry idx (0-based): ascending doc-ids
PostingsOf ==
  [c \in DOMAIN Corpora |->
    [idx \in 0 .. (Len(DictKeys(c)) - 1) |->
      SortInts({ d \in DocIds(c) : DictKeys(c)[idx + 1] \in DocKeys(c, d) })]]

Postings(c, idx) == PostingsOf[c][idx]

DictDf(c, idx) == Len(Postings(c, idx))

\* builder: shardId = hash(tokenKey) mod indexShardCount
DictShardIds(c, idx) == DictKeys(c)[idx + 1] % NumShards

dictShardId(c, tokenIdx) == DictShardIds(c, tokenIdx)

\* binary search in dict.keys; -1 when absent
RECURSIVE findKeyLoop(_, _, _, _)
findKeyLoop(keys, key, lo, hi) ==
  IF lo > hi THEN -1
  ELSE LET mid == (lo + hi) \div 2
           v == keys[mid + 1]
       IN  IF v = key THEN mid
           ELSE IF v < key THEN findKeyLoop(keys, key, mid + 1, hi)
           ELSE findKeyLoop(keys, key, lo, mid - 1)

findKey(keys, key) == findKeyLoop(keys, key, 0, Len(keys) - 1)

\* the dict indices of the tokens of one term that the dict knows
RECURSIVE foundIdxs(_, _)
foundIdxs(c, tokens) ==
  IF tokens = <<>> THEN <<>>
  ELSE LET idx == findKey(DictKeys(c), tokenKey(Head(tokens)))
       IN  IF idx < 0 THEN foundIdxs(c, Tail(tokens))
           ELSE <<idx>> \o foundIdxs(c, Tail(tokens))

RECURSIVE collectTokenIdxs(_, _)
collectTokenIdxs(c, terms) ==
  IF terms = <<>> THEN {}
  ELSE Range(foundIdxs(c, uniqNgrams(Head(terms))))
       \cup collectTokenIdxs(c, Tail(terms))

\* the shards a query needs (searchAsync / ensureIndexForTokenIdxs)
shardIdsOf(c, tokenIdxs) == { dictShardId(c, idx) : idx \in tokenIdxs }

\* variant: a search without terms warms every shard before it answers
searchShardIds_warmAll(c, parsed, all) ==
  IF Len(parsed.include) = 0 /\ Len(parsed.exclude) = 0 THEN all
  ELSE shardIdsOf(c, collectTokenIdxs(c, parsed.include \o parsed.exclude))

\* searchAsync: without terms searchSync runs at once and no shard is asked
\* for; otherwise the shards of the terms' tokens are ensured. all is the
\* set of shard ids of the manifest.
searchShardIds(c, parsed, all) ==
  IF Len(parsed.include) = 0 /\ Len(parsed.exclude) = 0 THEN {}
  ELSE shardIdsOf(c, collectTokenIdxs(c, parsed.include \o parsed.exclude))


\* ------------------------------------------------------------------------
\* Filters
\* ------------------------------------------------------------------------
FilterModes == {"any", "only0", "only1"}
SortModes == {"relevance", "id_desc", "id_asc"}

\* (f & (1 << b)) !== 0
FlagBit(f, b) == (f \div (2 ^ b)) % 2 = 1

\* variant: each bit overwrites the mask (lo = 1 << bit) instead of joining it
maskFromBits_overwrite(bits) ==
  IF bits = <<>> THEN [lo |-> {}, hi |-> {}]
  ELSE IF Head(bits) < 0 \/ Head(bits) >= 64 THEN [lo |-> {}, hi |-> {}]
  ELSE IF Head(bits) < 32 THEN [lo |-> {Head(bits)}, hi |-> {}]
  ELSE [lo |-> {}, hi |-> {Head(bits) - 32}]

RECURSIVE maskFromBits(_)
maskFromBits(bits) ==
  IF bits = <<>> THEN [lo |-> {}, hi |-> {}]
  ELSE LET rest == maskFromBits(Tail(bits))
           bit == Head(bits)
       IN  IF bit < 0 THEN rest
           ELSE IF bit < 32 THEN [rest EXCEPT !.lo = @ \cup {bit}]
           ELSE IF bit < 64 THEN [rest EXCEPT !.hi = @ \cup {bit - 32}]
           ELSE rest

statusPasses(mode, isSet) ==
  IF mode = "any" THEN TRUE
  ELSE IF mode = "only0" /\ isSet THEN FALSE
  ELSE IF mode = "only1" /\ ~isSet THEN FALSE
  ELSE TRUE

\* variant: the selected tags are checked only when the low word selects one
passesFilters_loGuard(c, docId, selectedLo, selectedHi, excludedLo, excludedHi, hidden, hideChapter, needLogin, lock) ==
  LET tl == metaTagLo(c, docId)
      th == metaTagHi(c, docId)
      f == metaFlags(c, docId)
  IN  /\ (selectedLo # {}) =>
            /\ (tl \cap selectedLo) = selectedLo
            /\ (th \cap selectedHi) = selectedHi
      /\ ~(excludedLo # {} /\ (tl \cap excludedLo) # {})
      /\ ~(excludedHi # {} /\ (th \cap excludedHi) # {})
      /\ statusPasses(hidden, FlagBit(f, 0))
      /\ statusPasses(hideChapter, FlagBit(f, 1))
      /\ statusPasses(needLogin, FlagBit(f, 2))
      /\ statusPasses(lock, FlagBit(f, 3))

passesFilters(c, docId, selectedLo, selectedHi, excludedLo, excludedHi, hidden, hideChapter, needLogin, lock) ==
  LET tl == metaTagLo(c, docId)
      th == metaTagHi(c, docId)
      f == metaFlags(c, docId)
  IN  /\ (selectedLo # {} \/ selectedHi # {}) =>
            /\ (tl \cap selectedLo) = selectedLo
            /\ (th \cap selectedHi) = selectedHi
      /\ ~(excludedLo # {} /\ (tl \cap excludedLo) # {})
      /\ ~(excludedHi # {} /\ (th \cap excludedHi) # {})
      /\ statusPasses(hidden, FlagBit(f, 0))
      /\ statusPasses(hideChapter, FlagBit(f, 1))
      /\ statusPasses(needLogin, FlagBit(f, 2))
      /\ statusPasses(lock, FlagBit(f, 3))

\* passesFilters with the masks and modes of one search message
msgPasses(c, msg, docId) ==
  LET sel == maskFromBits(msg.tagBits)
      exc == maskFromBits(msg.excludeTagBits)
  IN  passesFilters(c, docId, sel.lo, sel.hi, exc.lo, exc.hi,
                    msg.hidden, msg.hideChapter, msg.needLogin, msg.lock)

\* tagsFromMask: the tag slots set in a doc's two tag words
tagsFromMask(lo, hi) == lo \cup { b + 32 : b \in hi }

buildItem(c, docId) ==
  LET f == metaFlags(c, docId)
  IN  [id |-> metaIds(c, docId),
       title |-> Corpora[c][docId].title,
       tags |-> tagsFromMask(metaTagLo(c, docId), metaTagHi(c, docId)),
       hidden |-> FlagBit(f, 0),
       isHideChapter |-> FlagBit(f, 1),
       needLogin |-> FlagBit(f, 2),
       isLock |-> FlagBit(f, 3)]


\* ------------------------------------------------------------------------
\* Posting evaluator (searchSync)
\* ------------------------------------------------------------------------
\* scores are kept as integers: score * ScoreScale (every bigram count of the
\* model divides it, and so do the tenths of the full-text bonuses)
ScoreScale == 3 * 4 * 5

\* Math.max(1, Math.ceil(k * 0.6)); in double arithmetic Math.ceil(k * 0.6)
\* equals ceil(6k/10) for every k below 2000
minHitOf(k) == Max2(1, (6 * k + 9) \div 10)

\* variant: the threshold is not clamped to the tokens the dict knows
minHitClamped_unclamped(termTokens, tokenIdxs) == minHitOf(Len(termTokens))

\* const minHitClamped = Math.min(minHit, tokenIdxs.length)
minHitClamped(termTokens, tokenIdxs) ==
  Min2(minHitOf(Len(termTokens)), Len(tokenIdxs))

\* how many of the listed posting lists contain docId
HitCount(c, tokenIdxs, docId) ==
  Cardinality({ i \in DOMAIN tokenIdxs : docId \in Range(Postings(c, tokenIdxs[i])) })

\* decodeTokenIdxPostings throws unless the token's shard is in indexCache
decodeOk(c, icache, tokenIdxs) ==
  \A idx \in tokenIdxs : dictShardId(c, idx) \in icache

\* buildExcludeMask: the docs that reach the threshold of some exclude term;
\* a doc already in the mask is not counted again
reached(c, counts, need) == { d \in DocIds(c) : counts[d] > 0 /\ counts[d] >= need }

excludeCounts(c, mask, tokenIdxs) ==
  [d \in DocIds(c) |-> IF d \in mask THEN 0 ELSE HitCount(c, tokenIdxs, d)]

excludeTermMask(c, mask, termTokens, tokenIdxs) ==
  IF Len(termTokens) = 0 \/ Len(tokenIdxs) = 0 THEN mask
  ELSE mask \cup reached(c, excludeCounts(c, mask, tokenIdxs),
                         minHitClamped(termTokens, tokenIdxs))

excludeTermStep(c, mask, termTokens) ==
  excludeTermMask(c, mask, termTokens, foundIdxs(c, termTokens))

RECURSIVE buildExcludeMask(_, _, _)
buildExcludeMask(c, excludeTerms, mask) ==
  IF excludeTerms = <<>> THEN mask
  ELSE buildExcludeMask(c, Tail(excludeTerms),
                        excludeTermStep(c, mask, uniqNgrams(Head(excludeTerms))))

\* variant: the counting callback does not consult the exclude mask
countHits_unmasked(c, msg, excludeMask, tokenIdxs) ==
  [d \in DocIds(c) |->
     IF ~msgPasses(c, msg, d) THEN 0 ELSE HitCount(c, tokenIdxs, d)]

\* the counting callback of the include paths: the exclude mask and the
\* filters are consulted before a hit is counted
countHits(c, msg, excludeMask, tokenIdxs) ==
  [d \in DocIds(c) |->
     IF d \in excludeMask THEN 0
     ELSE IF ~msgPasses(c, msg, d) THEN 0
     ELSE HitCount(c, tokenIdxs, d)]

\* variant: the vector is built upwards whatever the sort
orderById_upwards(S, sort) == SortInts(S)

orderById(S, sort) == IF sort = "id_asc" THEN SortInts(S) ELSE Reverse(SortInts(S))

\* String.prototype.includes
Contains(text, term) ==
  \E i \in 0 .. (Len(text) - Len(term)) :
     \A j \in 1 .. Len(term) : text[i + j] = term[j]

\* variant: the title and alias bonuses are swapped
bonus_aliasFirst(c, docId, term) ==
  LET r == Corpora[c][docId]
  IN  (IF Contains(normText(r.title), term) THEN (6 * ScoreScale) \div 10 ELSE 0)
    + (IF Contains(normText(r.aliases), term) THEN (14 * ScoreScale) \div 10 ELSE 0)
    + (IF Contains(normText(r.authors), term) THEN (4 * ScoreScale) \div 10 ELSE 0)

\* the full-text bonus of one include term: title 1.4, aliases 0.6, authors 0.4
bonus(c, docId, term) ==
  LET r == Corpora[c][docId]
  IN  (IF Contains(normText(r.title), term) THEN (14 * ScoreScale) \div 10 ELSE 0)
    + (IF Contains(normText(r.aliases), term) THEN (6 * ScoreScale) \div 10 ELSE 0)
    + (IF Contains(normText(r.authors), term) THEN (4 * ScoreScale) \div 10 ELSE 0)

RECURSIVE bonusAll(_, _, _)
bonusAll(c, docId, terms) ==
  IF terms = <<>> THEN 0
  ELSE bonus(c, docId, Head(terms)) + bonusAll(c, docId, Tail(terms))

\* variant: equal scores are ordered by ascending external id
RECURSIVE sortByScore_tiesAscending(_, _, _)
sortByScore_tiesAscending(c, S, score) ==
  IF S = {} THEN <<>>
  ELSE LET m == CHOOSE x \in S : \A y \in S :
                   \/ score[x] > score[y]
                   \/ score[x] = score[y] /\ metaIds(c, x) <= metaIds(c, y)
       IN  <<m>> \o sortByScore_tiesAscending(c, S \ {m}, score)

\* candidates.sort: descending score, then descending external id
RECURSIVE sortByScore(_, _, _)
sortByScore(c, S, score) ==
  IF S = {} THEN <<>>
  ELSE LET m == CHOOSE x \in S : \A y \in S :
                   \/ score[x] > score[y]
                   \/ score[x] = score[y] /\ metaIds(c, x) >= metaIds(c, y)
       IN  <<m>> \o sortByScore(c, S \ {m}, score)

\* variant: the scan runs upwards unless the sort is id_desc
filterScan_upwards(c, msg, excludeMask) ==
  orderById({ d \in DocIds(c) : msgPasses(c, msg, d) /\ d \notin excludeMask },
            IF msg.sort = "id_desc" THEN "id_desc" ELSE "id_asc")

\* the no-include paths: every doc that passes the filters and is not in the
\* exclude mask, by doc-id
filterScan(c, msg, excludeMask) ==
  orderById({ d \in DocIds(c) : msgPasses(c, msg, d) /\ d \notin excludeMask },
            IF msg.sort = "id_asc" THEN "id_asc" ELSE "id_desc")

\* the per-term loop of the multi-term path: scores[d] becomes non-zero when
\* d reaches the threshold of a term
\* the scores after one term of the multi-term loop: a doc that reaches the
\* term's threshold gains hit / |tokens| (relevance) or the mark 1 (id sorts)
termScores(c, msg, scores, counts, need, k) ==
  [d \in DocIds(c) |->
     IF counts[d] > 0 /\ counts[d] >= need
     THEN IF msg.sort = "relevance"
          THEN scores[d] + (counts[d] * ScoreScale) \div k
          ELSE ScoreScale
     ELSE scores[d]]

multiTermStep(c, msg, excludeMask, scores, termTokens, tokenIdxs) ==
  IF Len(termTokens) = 0 \/ Len(tokenIdxs) = 0 THEN scores
  ELSE termScores(c, msg, scores, countHits(c, msg, excludeMask, tokenIdxs),
                  minHitClamped(termTokens, tokenIdxs), Len(termTokens))

multiTermTerm(c, msg, excludeMask, scores, termTokens) ==
  multiTermStep(c, msg, excludeMask, scores, termTokens, foundIdxs(c, termTokens))

\* the per-term loop of the multi-term path: scores[d] becomes non-zero when
\* d reaches the threshold of a term
RECURSIVE multiTermScores(_, _, _, _, _)
multiTermScores(c, msg, excludeMask, terms, scores) ==
  IF terms = <<>> THEN scores
  ELSE multiTermScores(c, msg, excludeMask, Tail(terms),
                       multiTermTerm(c, msg, excludeMask, scores,
                                     uniqNgrams(Head(terms))))

\* ---- the lists the include paths push on ---------------------------------
\* the docs a counting loop hands to its callback: the posting list of each
\* token in turn, less the docs the exclude mask or the filters reject (the
\* code visits the tokens by ascending df; what is pushed does not depend on
\* the order of the tokens)
RECURSIVE decodedDocs(_, _, _, _)
decodedDocs(c, msg, excludeMask, tokenIdxs) ==
  IF tokenIdxs = <<>> THEN <<>>
  ELSE LET counted(d) == d \notin excludeMask /\ msgPasses(c, msg, d)
       IN  SelectSeq(Postings(c, Head(tokenIdxs)), counted)
             \o decodedDocs(c, msg, excludeMask, Tail(tokenIdxs))

\* variant: the doc is pushed whatever was there before
pushIfZero_always(list, prev, docId) == Append(list, docId)

\* if (prev === 0) touched.push(docId); if (prevScore === 0) candidates.push(docId)
pushIfZero(list, prev, docId) == IF prev = 0 THEN Append(list, docId) ELSE list

\* the counting callback over the decoded docs: s.touched or termTouched
RECURSIVE touchedPush(_, _, _)
touchedPush(docs, counts, touched) ==
  IF docs = <<>> THEN touched
  ELSE touchedPush(Tail(docs),
                   [counts EXCEPT ![Head(docs)] = (@ + 1) % 65536],
                   pushIfZero(touched, counts[Head(docs)], Head(docs)))

touchedOf(c, msg, excludeMask, tokenIdxs) ==
  touchedPush(decodedDocs(c, msg, excludeMask, tokenIdxs),
              [d \in DocIds(c) |-> 0], <<>>)

\* for (const docId of termTouched): a doc that reaches the threshold is a
\* candidate when its score was 0, gains its score, and its count is cleared
RECURSIVE candidatesPush(_, _, _, _, _, _, _)
candidatesPush(msg, termTouched, counts, need, k, scores, candidates) ==
  IF termTouched = <<>> THEN candidates
  ELSE LET d == Head(termTouched)
           hit == counts[d]
       IN  IF hit >= need
           THEN candidatesPush(msg, Tail(termTouched), [counts EXCEPT ![d] = 0], need, k,
                               [scores EXCEPT ![d] = IF msg.sort = "relevance"
                                                     THEN @ + (hit * ScoreScale) \div k
                                                     ELSE ScoreScale],
                               pushIfZero(candidates, scores[d], d))
           ELSE candidatesPush(msg, Tail(termTouched), [counts EXCEPT ![d] = 0], need, k,
                               scores, candidates)

multiTermPush(c, msg, excludeMask, scores, candidates, termTokens, tokenIdxs) ==
  IF Len(termTokens) = 0 \/ Len(tokenIdxs) = 0 THEN candidates
  ELSE candidatesPush(msg, touchedOf(c, msg, excludeMask, tokenIdxs),
                      countHits(c, msg, excludeMask, tokenIdxs),
                      minHitClamped(termTokens, tokenIdxs), Len(termTokens),
                      scores, candidates)

\* the candidates of the multi-term path after its loop over the terms
RECURSIVE multiTermCandidates(_, _, _, _, _, _)
multiTermCandidates(c, msg, excludeMask, terms, scores, candidates) ==
  IF terms = <<>> THEN candidates
  ELSE multiTermCandidates(c, msg, excludeMask, Tail(terms),
                           multiTermTerm(c, msg, excludeMask, scores,
                                         uniqNgrams(Head(terms))),
                           multiTermPush(c, msg, excludeMask, scores, candidates,
                                         uniqNgrams(Head(terms)),
                                         foundIdxs(c, uniqNgrams(Head(terms)))))

\* Array.prototype.sort on a list: the list's docs in the order of the
\* comparator, each as often as the list holds it
RECURSIVE sorted(_, _)
sorted(order, list) ==
  IF order = <<>> THEN <<>>
  ELSE [i \in 1 .. Cardinality({ j \in DOMAIN list : list[j] = Head(order) }) |-> Head(order)]
         \o sorted(Tail(order), list)

multiTermOrder(c, msg, includeTerms, scores, candidates) ==
  IF msg.sort = "relevance"
  THEN sorted(sortByScore(c, Range(candidates),
                          [d \in DocIds(c) |-> scores[d] + bonusAll(c, d, includeTerms)]),
              candidates)
  ELSE sorted(orderById(Range(candidates), msg.sort), candidates)

multiTermDocIds(c, msg, excludeMask, includeTerms) ==
  multiTermOrder(c, msg, includeTerms,
                 multiTermScores(c, msg, excludeMask, includeTerms,
                                 [d \in DocIds(c) |-> 0]),
                 multiTermCandidates(c, msg, excludeMask, includeTerms,
                                     [d \in DocIds(c) |-> 0], <<>>))

\* let score = hit / queryTokens.length, plus the bonuses of the full text
singleTermScores(c, qNorm, counts, k) ==
  [d \in DocIds(c) |-> (counts[d] * ScoreScale) \div k + bonus(c, d, qNorm)]

\* variant: every touched doc is a candidate
singleTermCandidates_all(touched, counts, need) == touched

\* for (const docId of s.touched): the docs that reach the threshold
singleTermCandidates(touched, counts, need) ==
  LET enough(d) == counts[d] >= need
  IN  SelectSeq(touched, enough)

\* the id sorts scan the counters of every doc; relevance sorts the candidates
singleTermOrder(c, msg, qNorm, counts, need, k, touched) ==
  IF msg.sort = "relevance"
  THEN sorted(sortByScore(c, Range(singleTermCandidates(touched, counts, need)),
                          singleTermScores(c, qNorm, counts, k)),
              singleTermCandidates(touched, counts, need))
  ELSE orderById({ d \in DocIds(c) : counts[d] >= need }, msg.sort)

singleTermFound(c, msg, excludeMask, qNorm, queryTokens, tokenIdxs) ==
  IF Len(tokenIdxs) = 0 THEN <<>>
  ELSE singleTermOrder(c, msg, qNorm, countHits(c, msg, excludeMask, tokenIdxs),
                       minHitClamped(queryTokens, tokenIdxs), Len(queryTokens),
                       touchedOf(c, msg, excludeMask, tokenIdxs))

singleTermTokens(c, msg, excludeMask, qNorm, queryTokens) ==
  singleTermFound(c, msg, excludeMask, qNorm, queryTokens,
                  foundIdxs(c, queryTokens))

singleTermDocIds(c, msg, excludeMask, qNorm) ==
  singleTermTokens(c, msg, excludeMask, qNorm, uniqNgrams(qNorm))

\* ---- the scratch arrays: s.counts, s.scores, s.touched --------------------
\* recorded: the docs the evaluation pushed on touched, termTouched or
\* candidates; writes: the docs whose entries its resets wrote
ScratchClean(c) ==
  [counts |-> [d \in DocIds(c) |-> 0], scores |-> [d \in DocIds(c) |-> 0],
   touched |-> {}, recorded |-> {}, writes |-> {}]

\* a counting callback run over posting lists: hits[d] calls reach the
\* counter of d; const prev = s.counts[docId]; if (prev === 0) push
pushedBy(c, sc, hits) == { d \in DocIds(c) : hits[d] > 0 /\ sc.counts[d] = 0 }

\* s.counts[docId] = prev + 1, in a Uint16Array
countedBy(c, sc, hits) ==
  [d \in DocIds(c) |-> (sc.counts[d] + hits[d]) % 65536]

\* buildExcludeMask, one term: count, then s.counts[docId] = 0 over termTouched
excludeScratchTerm(c, sc, hits) ==
  [sc EXCEPT !.counts = [d \in DocIds(c) |->
                           IF d \in pushedBy(c, sc, hits) THEN 0
                           ELSE countedBy(c, sc, hits)[d]],
             !.recorded = @ \cup pushedBy(c, sc, hits),
             !.writes = @ \cup pushedBy(c, sc, hits)]

RECURSIVE excludeScratch(_, _, _, _)
excludeScratch(c, excludeTerms, mask, sc) ==
  IF excludeTerms = <<>> THEN sc
  ELSE LET termTokens == uniqNgrams(Head(excludeTerms))
           tokenIdxs == foundIdxs(c, termTokens)
       IN  excludeScratch(c, Tail(excludeTerms),
             excludeTermMask(c, mask, termTokens, tokenIdxs),
             IF Len(termTokens) = 0 \/ Len(tokenIdxs) = 0 THEN sc
             ELSE excludeScratchTerm(c, sc, excludeCounts(c, mask, tokenIdxs)))

\* the multi-term loop, one term: st holds the arrays and the candidates
multiScratchTerm(c, msg, st, hits, need, k) ==
  LET termTouched == pushedBy(c, st.sc, hits)
      counted == countedBy(c, st.sc, hits)
      scored == { d \in termTouched : counted[d] >= need }
  IN  [sc |-> [st.sc EXCEPT
                 !.counts = [d \in DocIds(c) |->
                               IF d \in termTouched THEN 0 ELSE counted[d]],
                 !.scores = [d \in DocIds(c) |->
                               IF d \notin scored THEN st.sc.scores[d]
                               ELSE IF msg.sort = "relevance"
                               THEN st.sc.scores[d] + (counted[d] * ScoreScale) \div k
                               ELSE ScoreScale],
                 !.recorded = @ \cup termTouched,
                 !.writes = @ \cup termTouched],
       candidates |-> st.candidates \cup { d \in scored : st.sc.scores[d] = 0 }]

RECURSIVE multiScratchTerms(_, _, _, _, _)
multiScratchTerms(c, msg, excludeMask, terms, st) ==
  IF terms = <<>> THEN st
  ELSE LET termTokens == uniqNgrams(Head(terms))
           tokenIdxs == foundIdxs(c, termTokens)
       IN  multiScratchTerms(c, msg, excludeMask, Tail(terms),
             IF Len(termTokens) = 0 \/ Len(tokenIdxs) = 0 THEN st
             ELSE multiScratchTerm(c, msg, st,
                                   countHits(c, msg, excludeMask, tokenIdxs),
                                   minHitClamped(termTokens, tokenIdxs),
                                   Len(termTokens)))

\* for (const docId of candidates) s.scores[docId] = 0
multiScratchEnd(c, st) ==
  [st.sc EXCEPT !.scores = [d \in DocIds(c) |->
                              IF d \in st.candidates THEN 0 ELSE st.sc.scores[d]],
                !.recorded = @ \cup st.candidates,
                !.writes = @ \cup st.candidates]

multiScratch(c, msg, excludeMask, includeTerms, sc) ==
  multiScratchEnd(c, multiScratchTerms(c, msg, excludeMask, includeTerms,
                                       [sc |-> sc, candidates |-> {}]))

\* variant: the reset clears the counters only
resetTouched_countsOnly(c, sc) ==
  [sc EXCEPT !.counts = [d \in DocIds(c) |->
                           IF d \in sc.touched THEN 0 ELSE sc.counts[d]],
             !.touched = {},
             !.writes = @ \cup sc.touched]

resetTouched(c, sc) ==
  [sc EXCEPT !.counts = [d \in DocIds(c) |->
                           IF d \in sc.touched THEN 0 ELSE sc.counts[d]],
             !.scores = [d \in DocIds(c) |->
                           IF d \in sc.touched THEN 0 ELSE sc.scores[d]],
             !.touched = {},
             !.writes = @ \cup sc.touched]

\* the single-term path after counting: the scores of the relevance sort are
\* stored for the touched docs that reach the threshold, then resetTouched
singleScratchCounted(c, msg, sc, qNorm, need, k) ==
  resetTouched(c,
    IF msg.sort = "relevance"
    THEN [sc EXCEPT !.scores = [d \in DocIds(c) |->
            IF d \in sc.touched /\ sc.counts[d] >= need
            THEN singleTermScores(c, qNorm, sc.counts, k)[d]
            ELSE sc.scores[d]]]
    ELSE sc)

singleScratchFound(c, msg, sc, qNorm, queryTokens, tokenIdxs, hits) ==
  singleScratchCounted(c, msg,
    [sc EXCEPT !.counts = countedBy(c, sc, hits),
               !.touched = @ \cup pushedBy(c, sc, hits),
               !.recorded = @ \cup pushedBy(c, sc, hits)],
    qNorm, minHitClamped(queryTokens, tokenIdxs), Len(queryTokens))

singleScratch(c, msg, excludeMask, qNorm, sc) ==
  LET queryTokens == uniqNgrams(qNorm)
      tokenIdxs == foundIdxs(c, queryTokens)
  IN  IF Len(tokenIdxs) = 0 THEN sc
      ELSE singleScratchFound(c, msg, sc, qNorm, queryTokens, tokenIdxs,
                              countHits(c, msg, excludeMask, tokenIdxs))

\* the arrays after the paths of searchSync that miss the result cache
scratchEvaluated(c, msg, parsed, sc) ==
  LET excludeMask == IF Len(parsed.exclude) > 0
                     THEN buildExcludeMask(c, parsed.exclude, {}) ELSE {}
      masked == IF Len(parsed.exclude) > 0
                THEN excludeScratch(c, parsed.exclude, {}, sc) ELSE sc
  IN  IF Len(parsed.include) = 0 THEN masked
      ELSE IF Len(parsed.include) > 1
      THEN multiScratch(c, msg, excludeMask, parsed.include, masked)
      ELSE singleScratch(c, msg, excludeMask, parsed.include[1], masked)


\* includeTerms.join(" ")
RECURSIVE joinTerms(_)
joinTerms(terms) ==
  IF terms = <<>> THEN <<>>
  ELSE IF Len(terms) = 1 THEN Head(terms)
  ELSE Head(terms) \o <<32>> \o joinTerms(Tail(terms))

\* variant: the key leaves out the need-login and lock filters
cacheKey_fewerFilters(msg, parsed) ==
  LET sel == maskFromBits(msg.tagBits)
      exc == maskFromBits(msg.excludeTagBits)
  IN  <<msg.sort, msg.hidden, msg.hideChapter,
        sel.lo, sel.hi, exc.lo, exc.hi,
        joinTerms(parsed.include) \o <<124, 45>> \o joinTerms(parsed.exclude)>>

\* the canonical plan string: its fields in order, the two term lists joined
\* into `${include}|-${exclude}`
cacheKey(msg, parsed) ==
  LET sel == maskFromBits(msg.tagBits)
      exc == maskFromBits(msg.excludeTagBits)
  IN  <<msg.sort, msg.hidden, msg.hideChapter, msg.needLogin, msg.lock,
        sel.lo, sel.hi, exc.lo, exc.hi,
        joinTerms(parsed.include) \o <<124, 45>> \o joinTerms(parsed.exclude)>>

\* variant: the lock filter is compared with the wrong mode
identityFilters_lockMode(msg) ==
  LET sel == maskFromBits(msg.tagBits)
      exc == maskFromBits(msg.excludeTagBits)
  IN  /\ sel.lo = {} /\ sel.hi = {} /\ exc.lo = {} /\ exc.hi = {}
      /\ msg.hidden = "any" /\ msg.hideChapter = "any"
      /\ msg.needLogin = "any" /\ msg.lock = "only0"

identityFilters(msg) ==
  LET sel == maskFromBits(msg.tagBits)
      exc == maskFromBits(msg.excludeTagBits)
  IN  /\ sel.lo = {} /\ sel.hi = {} /\ exc.lo = {} /\ exc.hi = {}
      /\ msg.hidden = "any" /\ msg.hideChapter = "any"
      /\ msg.needLogin = "any" /\ msg.lock = "any"

\* exclude-only queries are evaluated as a scan of the whole corpus
excludeOnlyDocIds(c, msg, excludeMask) == filterScan(c, msg, excludeMask)

evalWithMask(c, msg, includeTerms, excludeTerms, excludeMask) ==
  IF ~(Len(includeTerms) > 0 \/ Len(excludeTerms) > 0)
  THEN IF identityFilters(msg) THEN <<>> ELSE filterScan(c, msg, {})
  ELSE IF Len(includeTerms) = 0 THEN excludeOnlyDocIds(c, msg, excludeMask)
  ELSE IF Len(includeTerms) > 1
       THEN multiTermDocIds(c, msg, excludeMask, includeTerms)
  ELSE singleTermDocIds(c, msg, excludeMask, includeTerms[1])

\* the result vector of a plan that misses the result cache
evalDocIds(c, msg, parsed) ==
  evalWithMask(c, msg, parsed.include, parsed.exclude,
               IF Len(parsed.exclude) > 0
               THEN buildExcludeMask(c, parsed.exclude, {}) ELSE {})

pageOf(msg) == Max2(1, msg.page)
sizeOf(msg) == Max2(1, Min2(100, msg.size))

\* the page of a results message cut from the full vector
resultsOf(c, msg, all, page, size, offset, slice) ==
  [type |-> "results", requestId |-> msg.requestId, page |-> page,
   size |-> size, total |-> Len(all), hasMore |-> offset + size < Len(all),
   items |-> [i \in 1 .. Len(slice) |-> buildItem(c, slice[i])]]

\* variant: the slice takes the element at its end offset as well
sliceOf_closed(all, offset, size) == SubSeq(all, offset + 1, Min2(Len(all), offset + size + 1))

sliceOf(all, offset, size) == SubSeq(all, offset + 1, Min2(Len(all), offset + size))

resultsMessage(c, msg, all) ==
  resultsOf(c, msg, all, pageOf(msg), sizeOf(msg),
            (pageOf(msg) - 1) * sizeOf(msg),
            sliceOf(all, (pageOf(msg) - 1) * sizeOf(msg), sizeOf(msg)))

\* does the plan equal the cached one
cacheHit(rcache, key) == rcache # NULL /\ rcache.key = key

\* searchSync(s, msg, parsed): the results message, the result cache it
\* leaves, and whether a posting decode threw for an unloaded shard
evaluatedAs(c, msg, key, all) ==
  [error |-> FALSE, cache |-> [key |-> key, docIds |-> all],
   result |-> resultsMessage(c, msg, all)]

searchSyncKeyed(c, icache, rcache, msg, parsed, key) ==
  IF cacheHit(rcache, key)
  THEN [error |-> FALSE, cache |-> rcache,
        result |-> resultsMessage(c, msg, rcache.docIds)]
  ELSE IF ~decodeOk(c, icache, collectTokenIdxs(c, parsed.include \o parsed.exclude))
  THEN [error |-> TRUE, cache |-> rcache, result |-> NULL]
  ELSE evaluatedAs(c, msg, key, evalDocIds(c, msg, parsed))

searchSyncParsed(c, icache, rcache, msg, parsed) ==
  searchSyncKeyed(c, icache, rcache, msg, parsed, cacheKey(msg, parsed))

searchSync(c, icache, rcache, msg) ==
  searchSyncParsed(c, icache, rcache, msg, parseQuery(msg.q))

\* what a searchSync that returns leaves in the arrays: a cache hit touches
\* nothing; the arrays are not followed through a decode that throws
scratchAfter(c, icache, rcache, sc, msg) ==
  IF cacheHit(rcache, cacheKey(msg, parseQuery(msg.q))) THEN sc
  ELSE IF ~decodeOk(c, icache, collectTokenIdxs(c, parseQuery(msg.q).include
                                                   \o parseQuery(msg.q).exclude))
  THEN sc
  ELSE scratchEvaluated(c, msg, parseQuery(msg.q),
                        [sc EXCEPT !.recorded = {}, !.writes = {}])

\* a search message
Search(requestId, q, tagBits, excludeTagBits, hidden, hideChapter, needLogin, lock, sort, page, size) ==
  [type |-> "search", requestId |-> requestId, q |-> q, tagBits |-> tagBits,
   excludeTagBits |-> excludeTagBits, hidden |-> hidden,
   hideChapter |-> hideChapter, needLogin |-> needLogin, lock |-> lock,
   sort |-> sort, page |-> page, size |-> size]


\* ------------------------------------------------------------------------
\* The worker as a state machine.  One action is one task of the event loop
\* (a message, a timer, the completion of a cache read or of a fetch) or one
\* continuation that the task leaves in the microtask queue; tasks run only
\* when no continuation is waiting.
\* ------------------------------------------------------------------------
VARIABLES
  corpus,             \* which artifacts are deployed (index into Corpora)
  conn,               \* navigator.connection as the worker sees it
  stateLoaded,        \* state !== null
  deploy,             \* the manifest and the meta shard files it names
  initPc,             \* where init() stands
  initAssets,         \* init: tags, dict and meta shard loads and how they ended
  idb,                \* index shards held by the IndexedDB store
  indexCache,         \* s.indexCache (its key set)
  indexInflight,      \* s.indexInflight: shardId -> pending load or NULL
  loads,              \* asset loads in progress: [shard, sig, phase]
  aborted,            \* AbortControllers whose signal is tripped
  searching,          \* let searching
  pendingSearch,      \* let pendingSearch
  activeSearchAbort,  \* let activeSearchAbort (0 = null)
  loopPc,             \* where runSearchLoop stands
  msg,                \* runSearchLoop: const msg
  waiting,            \* loads the Promise.all of the running search awaits
  loopErr,            \* why the awaited searchAsync rejected
  preloadStarted,     \* preloadIndex has been called
  preNext,            \* preloadIndex: let next
  worker,             \* preloadIndex: the two async workers
  cache,              \* s.cache, the one-slot result cache
  scratch,            \* s.counts, s.scores, s.touched and what the last evaluation did to them
  posted,             \* messages posted to the page, in order
  received,           \* search messages received so far (the last requestId)
  evaluated,          \* history: requests whose searchSync has run
  transportFailed,    \* history: a cache read or a fetch failed
  asset,              \* loadAsset alone: the asset, its body and what the server sends
  hasDecompressionStream, \* typeof DecompressionStream !== "undefined"
  store,              \* the IndexedDB store "files": key -> data
  call,               \* the loadAsset call under way and how it ended
  calls,              \* loadAsset calls made so far
  writes,             \* idbPut requests started and not yet settled
  others,             \* keys held by the IndexedDB store besides the index shards
  txq,                \* readwrite transactions on the store, in creation order
  prunePc,            \* where the timer that prunes stands
  locate,             \* buildItem alone: a doc-id and the meta shard and slot found for it
  posting,            \* decodePostings alone: the pool, the range, and how far the decoder is
  batch,              \* loadAssetsBatched alone: its locals, its workers and what it did
  gate,               \* history: the requests received while state was null
  view                \* the page alone: its form, its current* variables and both message queues

workerVars == <<corpus, conn, stateLoaded, deploy, initPc, initAssets, idb, indexCache,
          indexInflight, loads, aborted,
          searching, pendingSearch, activeSearchAbort, loopPc, msg, waiting,
          loopErr, preloadStarted, preNext, worker, cache, scratch, posted,
          received, evaluated, transportFailed, others, txq, prunePc>>

storeVars == <<others, txq, prunePc>>

\* the parts of the program that are followed on their own
sideVars == <<gate, view>>

unitVars == <<locate, posting, batch, sideVars>>

assetVars == <<asset, hasDecompressionStream, store, call, calls, writes>>

loadVars == <<assetVars, unitVars>>

vars == <<workerVars, loadVars>>

initVars == <<stateLoaded, deploy, initPc, initAssets>>
loaderVars == <<indexCache, indexInflight, loads, idb>>
loopVars == <<searching, pendingSearch, activeSearchAbort, loopPc, msg, waiting, loopErr>>
preloadVars == <<preloadStarted, preNext, worker>>

\* preloadIndex: const concurrency = Math.min(2, total)
Workers == 1 .. Min2(2, NumShards)

LoadId(l) == <<l.shard, l.sig>>
Load(shard, sig) == [shard |-> shard, sig |-> sig, phase |-> "idb"]

WorkerOff == [st |-> "off", on |-> NULL]
WorkerRun == [st |-> "run", on |-> NULL]

\* continuations waiting in the microtask queue
MicroPending ==
  \/ initPc = "install"
  \/ loopPc \in {"head", "resolved", "rejected"}
  \/ \E w \in Workers : worker[w].st = "run"

\* the queries the page sends in the concurrent runs: "ab" and "cd -bc"
ConcQueries == { << <<97, 98>> >>, << <<99, 100>>, <<45, 98, 99>> >> }

ConcMessages(requestId) ==
  { Search(requestId, q, <<>>, <<>>, "any", "any", "any", "any", "relevance", 1, 20) :
      q \in ConcQueries }

\* ---- loadAsset, byte by byte ------------------------------------------------
\* idbGet: row?.data ?? null
NoEntry == <<-1>>

\* gzip header: 1f 8b 08
isGzipBytes(u8) == Len(u8) >= 3 /\ u8[1] = 31 /\ u8[2] = 139 /\ u8[3] = 8

\* gzipSync(raw): the header, the payload and a trailer that holds its length
gzipSync(raw) == <<31, 139, 8>> \o raw \o <<Len(raw)>>

\* DecompressionStream("gzip") errors on a stream whose trailer does not fit
inflatable(u8) == Len(u8) >= 4 /\ u8[Len(u8)] = Len(u8) - 4
inflate(u8) == SubSeq(u8, 4, Len(u8) - 1)

maybeGunzipArrayBuffer(buf, hasDS) ==
  IF ~isGzipBytes(buf) THEN [ok |-> TRUE, data |-> buf]
  ELSE IF ~hasDS THEN [ok |-> FALSE, data |-> <<>>]
  ELSE IF ~inflatable(buf) THEN [ok |-> FALSE, data |-> <<>>]
  ELSE [ok |-> TRUE, data |-> inflate(buf)]

\* compress_dist: the file is rewritten as gzip when that is shorter
distBody(raw, shorter) == IF shorter THEN gzipSync(raw) ELSE raw

\* uncompressed bodies: a meta shard (magic "ZMHm"), and two index shards,
\* which have no header: the postings of docs 4, 6 and of docs 30, 1065, 1070
BodyMeta == <<90, 77, 72, 109>>
BodyIndex == <<5, 2>>
BodyIndexHigh == <<31, 139, 8, 5>>

Bodies == { BodyMeta, BodyIndex, BodyIndexHigh }

\* the key of the asset in the manifest and a key of an older manifest
AssetKeys == { "H", "G" }

AssetRef(raw, body) == [sha256 |-> "H", raw |-> raw, body |-> body]

CallIdle ==
  [pc |-> "idle", buf |-> <<>>, result |-> NoEntry, gets |-> 0, put |-> NoEntry]

NotLocated == [docId |-> -1, shardId |-> -1, localDocId |-> -1]

\* the parts followed on their own are at rest
NoPosting ==
  [list |-> <<>>, index |-> <<>>, offset |-> 0, length |-> 0, i |-> 0, prev |-> -1,
   onDoc |-> <<>>]

\* loadAssetsBatched is not called: run[w] is the index a worker loads, -1
\* once it has returned and -2 once it has thrown; out[i] = 0 is a hole
NoBatch ==
  [pc |-> "idle", assets |-> <<>>, concurrency |-> 0, next |-> 0, done |-> 0,
   out |-> <<>>, run |-> <<>>, started |-> <<>>, settled |-> <<>>, progress |-> <<>>]

\* the page as its script leaves it, the form empty
NoView ==
  [q |-> <<>>, debounceTimer |-> FALSE, autoLoadSupported |-> FALSE,
   currentRequestId |-> 0, currentPage |-> 1, currentHasMore |-> FALSE,
   currentItems |-> <<>>, loadingMore |-> FALSE, shown |-> <<>>,
   btnHidden |-> TRUE, btnDisabled |-> FALSE, toWorker |-> <<>>, toPage |-> <<>>]

SidesOff ==
  /\ gate = {}
  /\ view = NoView

UnitsOff ==
  /\ SidesOff
  /\ locate = NotLocated
  /\ posting = NoPosting
  /\ batch = NoBatch

\* the asset loader is not followed byte by byte in the runs of the worker
LoadOff ==
  /\ UnitsOff
  /\ asset = AssetRef(BodyIndex, BodyIndex)
  /\ hasDecompressionStream = TRUE
  /\ store = [k \in AssetKeys |-> NoEntry]
  /\ call = CallIdle
  /\ calls = 0
  /\ writes = {}
  /\ others = {}
  /\ txq = <<>>
  /\ prunePc = "untracked"

\* ---- navigator.connection ---------------------------------------------------
\* saveData and effectiveType; "" stands for a missing effectiveType, and
\* NoConnection for a runtime without navigator.connection
Connection(saveData, effectiveType) ==
  [saveData |-> saveData, effectiveType |-> effectiveType]

NoConnection == Connection(FALSE, "")

ConnFast == Connection(FALSE, "4g")

Connections ==
  { NoConnection, ConnFast, Connection(FALSE, "2g"),
    Connection(FALSE, "slow-2g"), Connection(TRUE, "4g") }

\* variant: only the effective type is looked at
shouldPreloadIndex_typeOnly(c) == c.effectiveType \notin {"slow-2g", "2g"}

shouldPreloadIndex(c) ==
  IF c.saveData THEN FALSE
  ELSE IF c.effectiveType \in {"slow-2g", "2g"} THEN FALSE
  ELSE TRUE

\* ---- the deployment: manifest.json and the meta shard files ---------------
\* stats.count, stats.metaShardDocs (0: absent) and, per meta shard file, the
\* records it holds, each named by the row of the corpus it was built from
Deployment(count, metaShardDocs, shards) ==
  [count |-> count, metaShardDocs |-> metaShardDocs, shards |-> shards]

\* two full shards of two docs
DeployMain == Deployment(4, 2, << <<0, 1>>, <<2, 3>> >>)

\* one shard too many, a record missing, a record too many
BrokenDeployments ==
  { Deployment(4, 2, << <<0, 1>>, <<2>>, <<3>> >>),
    Deployment(4, 2, << <<0, 1>>, <<2>> >>),
    Deployment(4, 2, << <<0, 1>>, <<2, 3, 3>> >>) }

\* also: width 3 with a short last shard, no metaShardDocs and one shard,
\* and two shards of width 2 holding one and three records
Deployments ==
  { DeployMain,
    Deployment(4, 3, << <<0, 1, 2>>, <<3>> >>),
    Deployment(4, 0, << <<0, 1, 2, 3>> >>),
    Deployment(4, 2, << <<0>>, <<1, 2, 3>> >>) } \cup BrokenDeployments

\* const totalCount = Math.max(0, manifest.stats.count | 0)
totalCountOf(dep) == Max2(0, dep.count)

metaShardDocsOf(dep) ==
  IF dep.metaShardDocs > 0 THEN dep.metaShardDocs ELSE totalCountOf(dep)

\* Math.ceil(totalCount / metaShardDocs), 0 without docs
expectedMetaShardCount(dep) ==
  IF metaShardDocsOf(dep) > 0
  THEN (totalCountOf(dep) + metaShardDocsOf(dep) - 1) \div metaShardDocsOf(dep)
  ELSE 0

metaCountOk(dep) ==
  ~(expectedMetaShardCount(dep) > 0 /\ Len(dep.shards) # expectedMetaShardCount(dep))

\* the loop over metaBufs: the flattened arrays, or the error it throws
RECURSIVE metaConcatFrom(_, _, _)
metaConcatFrom(dep, k, flat) ==
  IF k > Len(dep.shards)
  THEN IF Len(flat) # totalCountOf(dep)
       THEN [err |-> "countMismatch", flat |-> flat]
       ELSE [err |-> "none", flat |-> flat]
  ELSE IF Len(flat) + Len(dep.shards[k]) > totalCountOf(dep)
       THEN [err |-> "countOverflow", flat |-> flat]
       ELSE metaConcatFrom(dep, k + 1, flat \o dep.shards[k])

metaConcat(dep) == metaConcatFrom(dep, 1, <<>>)

\* ---- 32-bit operations on the values init and buildItem meet: counts,
\* doc-ids and shard widths are int32 (n | 0), and every operand below a
\* guard "n <= 0" is positive
\* a & b, bit by bit, for a, b >= 0
RECURSIVE bitAnd(_, _)
bitAnd(a, b) ==
  IF a = 0 \/ b = 0 THEN 0
  ELSE (a % 2) * (b % 2) + 2 * bitAnd(a \div 2, b \div 2)

\* Math.clz32(n) for n >= 0: 32 less the number of bits of n
RECURSIVE clz32(_)
clz32(n) == IF n = 0 THEN 32 ELSE clz32(n \div 2) - 1

\* x >>> k for x >= 0 and 0 <= k <= 31: the low bit is dropped k times
RECURSIVE ushr(_, _)
ushr(x, k) == IF k = 0 THEN x ELSE ushr(x \div 2, k - 1)

\* null (here -1) unless n & (n - 1) is 0 for a positive n; then 31 - clz32(n)
shardShiftForDocs(shardDocs) ==
  IF shardDocs <= 0 THEN -1
  ELSE IF bitAnd(shardDocs, shardDocs - 1) # 0 THEN -1
  ELSE 31 - clz32(shardDocs)

\* variant: the mask is the shard width itself
metaShardMask_width(dep) ==
  IF shardShiftForDocs(metaShardDocsOf(dep)) = -1 THEN 0 ELSE metaShardDocsOf(dep)

\* const mask = shift === null ? 0 : (metaShardDocs - 1) | 0
metaShardMask(dep) ==
  IF shardShiftForDocs(metaShardDocsOf(dep)) = -1 THEN 0 ELSE metaShardDocsOf(dep) - 1

\* docId >>> shift, or Math.floor(docId / metaShardDocs)
metaShardId(dep, docId) ==
  IF shardShiftForDocs(metaShardDocsOf(dep)) # -1
  THEN ushr(docId, shardShiftForDocs(metaShardDocsOf(dep)))
  ELSE docId \div metaShardDocsOf(dep)

\* docId & s.metaShardMask, or docId - shardId * metaShardDocs
metaLocalDocId(dep, docId, shardId) ==
  IF shardShiftForDocs(metaShardDocsOf(dep)) # -1
  THEN bitAnd(docId, metaShardMask(dep))
  ELSE docId - shardId * metaShardDocsOf(dep)

\* the assets init waits for: tags, dict and meta shard 0, 1, ...
InitAssetsOf(dep) ==
  {<<"tags", 0>>, <<"dict", 0>>} \cup { <<"meta", k>> : k \in 0 .. (Len(dep.shards) - 1) }

IsMeta(a) == a[1] = "meta"

InitVarsOff ==
  /\ stateLoaded = FALSE
  /\ initPc = "off"
  /\ initAssets = <<>>

Init ==
  /\ corpus = 2
  /\ conn = ConnFast
  /\ deploy \in {DeployMain} \cup BrokenDeployments
  /\ InitVarsOff
  /\ idb \in SUBSET Shards
  /\ indexCache = {}
  /\ indexInflight = [sh \in Shards |-> NULL]
  /\ loads = {}
  /\ aborted = {}
  /\ searching = FALSE
  /\ pendingSearch = NULL
  /\ activeSearchAbort = 0
  /\ loopPc = "idle"
  /\ msg = NULL
  /\ waiting = {}
  /\ loopErr = "none"
  /\ preloadStarted = FALSE
  /\ preNext = 0
  /\ worker = [w \in Workers |-> WorkerOff]
  /\ cache = NULL
  /\ scratch = ScratchClean(corpus)
  /\ posted = <<>>
  /\ received = 0
  /\ evaluated = {}
  /\ transportFailed = FALSE
  /\ LoadOff

\* ---- init ----------------------------------------------------------------
\* variant: the catch reports an ordinary stage
InitFailure_quiet(why) == [type |-> "progress", stage |-> "assets"]

\* what init() fails with; a reason containing "404" gets its own message
InitFailure(why) ==
  IF why = "404"
  THEN [type |-> "progress", stage |-> "notFound"]
  ELSE [type |-> "progress", stage |-> "loadFailed", reason |-> why]

\* self.onmessage, type "init": init() runs up to the manifest fetch
InitMessage ==
  /\ ~MicroPending
  /\ initPc = "off"
  /\ initPc' = "manifest"
  /\ posted' = Append(posted, [type |-> "progress", stage |-> "manifest"])
  /\ UNCHANGED <<storeVars, loadVars, corpus, conn, scratch, stateLoaded, deploy, initAssets, loaderVars, aborted,
                 loopVars, preloadVars, cache, received, evaluated, transportFailed>>

\* the manifest arrived (or its fetch failed): the shard count is checked
\* and openDb is called
InitManifest(outcome) ==
  /\ ~MicroPending
  /\ initPc = "manifest"
  /\ LET why == IF outcome # "ok" THEN outcome
                ELSE IF ~metaCountOk(deploy) THEN "metaShardCount"
                ELSE "none"
     IN  IF why = "none"
         THEN /\ initPc' = "db"
              /\ posted' = Append(posted, [type |-> "progress", stage |-> "db"])
         ELSE /\ initPc' = "failed"
              /\ posted' = Append(posted, InitFailure(why))
  /\ UNCHANGED <<storeVars, loadVars, corpus, conn, scratch, stateLoaded, deploy, initAssets, loaderVars, aborted,
                 loopVars, preloadVars, cache, received, evaluated, transportFailed>>

\* the cache opened (or failed to): tags, dict and the meta shards are
\* requested together
InitOpenDb(ok) ==
  /\ ~MicroPending
  /\ initPc = "db"
  /\ IF ok
     THEN /\ initPc' = "assets"
          /\ initAssets' = [a \in InitAssetsOf(deploy) |-> "pending"]
          /\ posted' = Append(posted, [type |-> "progress", stage |-> "assets"])
     ELSE /\ initPc' = "failed"
          /\ posted' = Append(posted, InitFailure("openDb"))
          /\ UNCHANGED initAssets
  /\ UNCHANGED <<storeVars, loadVars, corpus, conn, scratch, stateLoaded, deploy, loaderVars, aborted,
                 loopVars, preloadVars, cache, received, evaluated, transportFailed>>

\* variant: init goes on once tags and dict are there
initResolved_tagsDict(assets) == \A b \in DOMAIN assets : IsMeta(b) \/ assets[b] = "ok"

\* Promise.all([tags, dict, metaBufsPromise]) resolves when all have
initResolved(assets) == \A b \in DOMAIN assets : assets[b] = "ok"

\* loadAssetsBatched: onProgress(done, total) after each meta shard
metaProgress(assets) ==
  [type |-> "progress", stage |-> "meta",
   done |-> Cardinality({ a \in DOMAIN assets : IsMeta(a) /\ assets[a] = "ok" }),
   total |-> Cardinality({ a \in DOMAIN assets : IsMeta(a) })]

\* one of the loads settles.  The first rejection rejects init's Promise.all;
\* the other loads go on and the meta shards among them still report progress
InitAssetStep(a, ok) ==
  /\ ~MicroPending
  /\ initPc \in {"assets", "failed"}
  /\ a \in DOMAIN initAssets /\ initAssets[a] = "pending"
  /\ LET after == [initAssets EXCEPT ![a] = IF ok THEN "ok" ELSE "failed"]
         report == IF ok /\ IsMeta(a) THEN <<metaProgress(after)>> ELSE <<>>
     IN  /\ initAssets' = after
         /\ IF ok
            THEN /\ initPc' = IF initPc = "assets" /\ initResolved(after)
                              THEN "install" ELSE initPc
                 /\ posted' = posted \o report
            ELSE /\ initPc' = "failed"
                 /\ posted' = IF initPc = "assets"
                              THEN Append(posted, InitFailure("transport"))
                              ELSE posted
  /\ UNCHANGED <<loadVars, corpus, conn, scratch, stateLoaded, deploy, loaderVars, aborted,
                 loopVars, preloadVars, cache, received, evaluated, transportFailed>>

InitAsset(a, ok) == InitAssetStep(a, ok) /\ UNCHANGED storeVars

\* everything is loaded: the meta shards are concatenated and checked, the
\* state is installed and ready is posted
InitDone ==
  /\ initPc = "install"
  /\ LET r == metaConcat(deploy)
     IN  IF r.err = "none"
         THEN /\ stateLoaded' = TRUE
              /\ initPc' = "ready"
              /\ posted' = Append(posted, [type |-> "ready", count |-> totalCountOf(deploy)])
         ELSE /\ initPc' = "failed"
              /\ posted' = Append(posted, InitFailure(r.err))
              /\ UNCHANGED stateLoaded
  /\ UNCHANGED <<storeVars, loadVars, corpus, conn, scratch, deploy, initAssets, loaderVars, aborted, loopVars,
                 preloadVars, cache, received, evaluated, transportFailed>>

\* ---- loadIndexShard -----------------------------------------------------
\* variant: the registry of pending loads is not consulted
startsLoad_unregistered(icache, inflight, shardId) == shardId \notin icache

\* neither cached nor in flight: the caller starts the load
startsLoad(icache, inflight, shardId) ==
  shardId \notin icache /\ inflight[shardId] = NULL

\* the loads and the registry after loadIndexShard was called for each of
\* shardIds with signal sig
loadsAfterCalls(shardIds, sig) ==
  loads \cup { Load(sh, sig) : sh \in { x \in shardIds : startsLoad(indexCache, indexInflight, x) } }

inflightAfterCalls(shardIds, sig) ==
  [sh \in Shards |->
     IF sh \in shardIds /\ startsLoad(indexCache, indexInflight, sh)
     THEN <<sh, sig>> ELSE indexInflight[sh]]

\* the pending loads those calls await (none for a cached shard)
awaitedAfterCalls(shardIds, sig) ==
  { inflightAfterCalls(shardIds, sig)[sh] : sh \in shardIds \ indexCache }

\* ---- waking the awaiting parties when loads settle -----------------------
\* variant: the wait ends with the first load that resolves (Promise.race)
ensureResolved_first(left) == TRUE

\* Promise.all resolves when nothing is left to await
ensureResolved(left) == left = {}

loopAfterSettle(ids, ok, why) ==
  IF loopPc = "await" /\ (waiting \cap ids) # {}
  THEN IF ok
       THEN IF ensureResolved(waiting \ ids)
            THEN [pc |-> "resolved", waiting |-> {}, err |-> loopErr]
            ELSE [pc |-> "await", waiting |-> waiting \ ids, err |-> loopErr]
       ELSE [pc |-> "rejected", waiting |-> {}, err |-> why]
  ELSE [pc |-> loopPc, waiting |-> waiting, err |-> loopErr]

workerAfterSettle(ids, ok) ==
  [w \in Workers |->
     IF worker[w].st = "await" /\ worker[w].on \in ids
     THEN IF ok THEN WorkerRun ELSE [st |-> "failed", on |-> NULL]
     ELSE worker[w]]

\* variant: the registry keeps the entry of a load that has settled
inflightAfterSettle_kept(ls) == indexInflight

\* the creator's finally: s.indexInflight.delete(shardId)
inflightAfterSettle(ls) ==
  [sh \in Shards |-> IF \E l \in ls : l.shard = sh THEN NULL ELSE indexInflight[sh]]


\* ---- self.onmessage / requestSearch ---------------------------------------
\* variant: requestSearch leaves the running search's signal alone
abortTargets_none(ac) == {}

\* activeSearchAbort?.abort()
abortTargets(ac) == IF ac = 0 THEN {} ELSE {ac}

\* fetches that reject at once when the signals in sigs are tripped
abortedFetches(sigs) == { l \in loads : l.phase = "fetch" /\ l.sig \in sigs }

\* variant: a search is taken whether or not the engine is there
discards_never(loaded) == FALSE

\* if (!state) return;
discards(loaded) == ~loaded

onmessage(m) ==
  /\ ~MicroPending
  /\ received < MaxRequests
  /\ m.requestId = received + 1
  /\ received' = received + 1
  /\ IF discards(stateLoaded)
     THEN UNCHANGED <<loaderVars, aborted, loopVars, worker>>
     ELSE LET sigs == abortTargets(activeSearchAbort)
              rej == abortedFetches(sigs)
              ids == { LoadId(l) : l \in rej }
              lp == loopAfterSettle(ids, FALSE, "abort")
          IN  /\ pendingSearch' = m
              /\ aborted' = aborted \cup sigs
              /\ loads' = loads \ rej
              /\ indexInflight' = inflightAfterSettle(rej)
              /\ worker' = workerAfterSettle(ids, FALSE)
              /\ waiting' = lp.waiting
              /\ loopErr' = lp.err
              /\ searching' = TRUE
              /\ loopPc' = IF searching THEN lp.pc ELSE "head"
              /\ UNCHANGED <<indexCache, idb, activeSearchAbort, msg>>
  /\ UNCHANGED <<storeVars, assetVars, corpus, conn, scratch, initVars, preloadStarted, preNext, cache, posted,
                 evaluated, transportFailed>>

Receive(m) ==
  /\ onmessage(m)
  /\ UNCHANGED unitVars

\* ---- runSearchLoop --------------------------------------------------------
\* while (pendingSearch): take the message, make its AbortController and run
\* searchAsync up to its first await
LoopHead ==
  /\ loopPc = "head"
  /\ IF pendingSearch = NULL
     THEN /\ searching' = FALSE
          /\ loopPc' = "idle"
          /\ UNCHANGED <<pendingSearch, activeSearchAbort, msg, waiting, loopErr,
                         loaderVars, posted>>
     ELSE IF ~stateLoaded
     THEN /\ pendingSearch' = NULL
          /\ searching' = FALSE
          /\ loopPc' = "idle"
          /\ UNCHANGED <<activeSearchAbort, msg, waiting, loopErr, loaderVars, posted>>
     ELSE LET m == pendingSearch
              parsed == parseQuery(m.q)
              shardIds == searchShardIds(corpus, parsed, Shards)
              needLoad == Cardinality(shardIds \ indexCache)
              awaited == awaitedAfterCalls(shardIds, m.requestId)
          IN  /\ msg' = m
              /\ pendingSearch' = NULL
              /\ activeSearchAbort' = m.requestId
              /\ loads' = loadsAfterCalls(shardIds, m.requestId)
              /\ indexInflight' = inflightAfterCalls(shardIds, m.requestId)
              /\ waiting' = awaited
              /\ loopPc' = IF awaited = {} THEN "resolved" ELSE "await"
              /\ posted' = IF needLoad > 0
                           THEN Append(posted, [type |-> "progress", stage |-> "loading"])
                           ELSE posted
              /\ UNCHANGED <<searching, loopErr, indexCache, idb>>
  /\ UNCHANGED <<storeVars, loadVars, corpus, conn, scratch, initVars, aborted, preloadVars, cache, received,
                 evaluated, transportFailed>>

\* variant: the loop posts whatever searchAsync returned
skipStale_never(pending) == FALSE

\* if (pendingSearch) continue;
skipStale(pending) == pending # NULL

\* variant: the catch swallows every error
failureAfter_silent(requestId, why) == posted

\* catch (err): if (ac.signal.aborted) continue; else post the failure
failureAfter(requestId, why) ==
  IF requestId \in aborted THEN posted
  ELSE Append(posted, [type |-> "progress", stage |-> "failed",
                       requestId |-> requestId, reason |-> why])

\* searchAsync resolved its wait: searchSync runs, then the loop posts or skips
LoopResolved ==
  /\ loopPc = "resolved"
  /\ \E r \in {searchSync(corpus, indexCache, cache, msg)} :
         /\ evaluated' = evaluated \cup {msg.requestId}
         /\ cache' = r.cache
         /\ scratch' = scratchAfter(corpus, indexCache, cache, scratch, msg)
         /\ posted' = IF r.error THEN failureAfter(msg.requestId, "notLoaded")
                      ELSE IF skipStale(pendingSearch) THEN posted
                      ELSE Append(posted, r.result)
  /\ loopPc' = "head"
  /\ UNCHANGED <<storeVars, loadVars, corpus, conn, initVars, loaderVars, aborted, searching,
                 pendingSearch, activeSearchAbort, msg, waiting, loopErr,
                 preloadVars, received, transportFailed>>

\* searchAsync rejected
LoopRejected ==
  /\ loopPc = "rejected"
  /\ posted' = failureAfter(msg.requestId, loopErr)
  /\ loopPc' = "head"
  /\ UNCHANGED <<storeVars, loadVars, corpus, conn, scratch, initVars, loaderVars, aborted, searching,
                 pendingSearch, activeSearchAbort, msg, waiting, loopErr,
                 preloadVars, cache, received, evaluated,
                 transportFailed>>

\* ---- loadAsset: the steps of one pending load -----------------------------
\* the load settles: the shard enters indexCache on success, the registry
\* entry goes, the awaiting parties wake
Settle(l, ok, why) ==
  LET ids == {LoadId(l)}
      lp == loopAfterSettle(ids, ok, why)
  IN  /\ loads' = loads \ {l}
      /\ indexCache' = IF ok THEN indexCache \cup {l.shard} ELSE indexCache
      /\ indexInflight' = inflightAfterSettle({l})
      /\ loopPc' = lp.pc
      /\ waiting' = lp.waiting
      /\ loopErr' = lp.err
      /\ worker' = workerAfterSettle(ids, ok)

\* idbGet answers: a hit ends the load; after a miss the fetch starts, and
\* rejects at once when its signal is already tripped
IdbGetDone(l) ==
  /\ ~MicroPending
  /\ l \in loads /\ l.phase = "idb"
  /\ IF l.shard \in idb THEN Settle(l, TRUE, "none")
     ELSE IF l.sig \in aborted THEN Settle(l, FALSE, "abort")
     ELSE /\ loads' = (loads \ {l}) \cup {[l EXCEPT !.phase = "fetch"]}
          /\ UNCHANGED <<indexCache, indexInflight, loopPc, waiting, loopErr, worker>>
  /\ UNCHANGED <<storeVars, loadVars, corpus, conn, scratch, initVars, idb, aborted, searching, pendingSearch,
                 activeSearchAbort, msg, preloadStarted, preNext, cache, posted,
                 received, evaluated, transportFailed>>

IdbGetFail(l) ==
  /\ ~MicroPending
  /\ l \in loads /\ l.phase = "idb"
  /\ Settle(l, FALSE, "transport")
  /\ transportFailed' = TRUE
  /\ UNCHANGED <<storeVars, loadVars, corpus, conn, scratch, initVars, idb, aborted, searching, pendingSearch,
                 activeSearchAbort, msg, preloadStarted, preNext, cache, posted,
                 received, evaluated>>

\* the body arrived: gzip bodies go through DecompressionStream, others end
\* the load; idbPut is started and may or may not store the bytes
FetchDoneStep(l, gzip, stored) ==
  /\ ~MicroPending
  /\ l \in loads /\ l.phase = "fetch"
  /\ IF gzip
     THEN /\ loads' = (loads \ {l}) \cup {[l EXCEPT !.phase = "gunzip"]}
          /\ UNCHANGED <<indexCache, indexInflight, loopPc, waiting, loopErr, worker, idb>>
     ELSE /\ Settle(l, TRUE, "none")
          /\ idb' = IF stored THEN idb \cup {l.shard} ELSE idb
  /\ UNCHANGED <<loadVars, corpus, conn, scratch, initVars, aborted, searching, pendingSearch,
                 activeSearchAbort, msg, preloadStarted, preNext, cache, posted,
                 received, evaluated, transportFailed>>

FetchDone(l, gzip, stored) == FetchDoneStep(l, gzip, stored) /\ UNCHANGED storeVars

GunzipDoneStep(l, stored) ==
  /\ ~MicroPending
  /\ l \in loads /\ l.phase = "gunzip"
  /\ Settle(l, TRUE, "none")
  /\ idb' = IF stored THEN idb \cup {l.shard} ELSE idb
  /\ UNCHANGED <<loadVars, corpus, conn, scratch, initVars, aborted, searching, pendingSearch,
                 activeSearchAbort, msg, preloadStarted, preNext, cache, posted,
                 received, evaluated, transportFailed>>

GunzipDone(l, stored) == GunzipDoneStep(l, stored) /\ UNCHANGED storeVars

FetchFail(l) ==
  /\ ~MicroPending
  /\ l \in loads /\ l.phase = "fetch"
  /\ Settle(l, FALSE, "transport")
  /\ transportFailed' = TRUE
  /\ UNCHANGED <<storeVars, loadVars, corpus, conn, scratch, initVars, idb, aborted, searching, pendingSearch,
                 activeSearchAbort, msg, preloadStarted, preNext, cache, posted,
                 received, evaluated>>

\* ---- preloadIndex ---------------------------------------------------------
PreloadStart ==
  /\ ~MicroPending
  /\ stateLoaded /\ ~preloadStarted
  /\ prunePc # "off"
  /\ shouldPreloadIndex(conn)
  /\ preloadStarted' = TRUE
  /\ preNext' = 0
  /\ worker' = [w \in Workers |-> WorkerRun]
  /\ UNCHANGED <<storeVars, loadVars, corpus, conn, scratch, initVars, loaderVars, aborted, loopVars, cache,
                 posted, received, evaluated, transportFailed>>

\* while (next < total) { shardId = next; next += 1; await loadIndexShard(s, shardId) }
WorkerStep(w) ==
  /\ worker[w].st = "run"
  /\ IF preNext < NumShards
     THEN LET shardId == preNext
              awaited == awaitedAfterCalls({shardId}, 0)
          IN  /\ preNext' = preNext + 1
              /\ loads' = loadsAfterCalls({shardId}, 0)
              /\ indexInflight' = inflightAfterCalls({shardId}, 0)
              /\ worker' = [worker EXCEPT ![w] =
                   IF awaited = {} THEN WorkerRun
                   ELSE [st |-> "await", on |-> CHOOSE id \in awaited : TRUE]]
     ELSE /\ worker' = [worker EXCEPT ![w] = [st |-> "done", on |-> NULL]]
          /\ UNCHANGED <<preNext, loads, indexInflight>>
  /\ UNCHANGED <<storeVars, loadVars, corpus, conn, scratch, initVars, idb, indexCache, aborted, loopVars,
                 preloadStarted, cache, posted, received, evaluated,
                 transportFailed>>

Next ==
  \/ InitMessage
  \/ \E outcome \in {"ok", "404", "transport"} : InitManifest(outcome)
  \/ \E ok \in BOOLEAN : InitOpenDb(ok)
  \/ \E a \in DOMAIN initAssets, ok \in BOOLEAN : InitAsset(a, ok)
  \/ InitDone
  \/ \E m \in ConcMessages(received + 1) : Receive(m)
  \/ LoopHead
  \/ LoopResolved
  \/ LoopRejected
  \/ \E l \in loads : IdbGetDone(l)
  \/ \E l \in loads : IdbGetFail(l)
  \/ \E l \in loads, gzip \in BOOLEAN, stored \in BOOLEAN : FetchDone(l, gzip, stored)
  \/ \E l \in loads, stored \in BOOLEAN : GunzipDone(l, stored)
  \/ \E l \in loads : FetchFail(l)
  \/ PreloadStart
  \/ \E w \in Workers : WorkerStep(w)

Spec == Init /\ [][Next]_vars


\* ------------------------------------------------------------------------
\* The evaluator on its own: every index shard is loaded and the loop is
\* idle, so a search message is answered in one step (requestSearch, the loop
\* iteration and searchSync, nothing to wait for).
\* ------------------------------------------------------------------------
Q_empty == <<>>
Q_ab == << <<97, 98>> >>
Q_abc == << <<97, 98, 99>> >>
Q_abx == << <<97, 98, 120>> >>
Q_abce == << <<97, 98, 99, 101>> >>
Q_abcd == << <<97, 98, 99, 100>> >>
Q_ab_cd == << <<97, 98>>, <<99, 100>> >>
Q_ab_xy == << <<65, 66>>, <<120, 121>> >>
Q_not_ab == << <<45, 97, 98>> >>
Q_cd_not_ab == << <<99, 100>>, <<45, 97, 98>> >>
Q_ab_cd_not_ae == << <<97, 98>>, <<99, 100>>, <<65293, 97, 101>> >>
Q_not_aex == << <<45, 97, 101, 120>> >>
\* "cd ab", "ab cd ab", "ab -AB cd", "a -b - ab c-"
Q_cd_ab == << <<99, 100>>, <<97, 98>> >>
Q_ab_cd_ab == << <<97, 98>>, <<99, 100>>, <<97, 98>> >>
Q_ab_not_ab_cd == << <<97, 98>>, <<45, 65, 66>>, <<99, 100>> >>
Q_short == << <<97>>, <<45, 98>>, <<45>>, <<97, 98>>, <<99, 45>> >>

ParseQueries == { Q_cd_ab, Q_ab_cd_ab, Q_ab_not_ab_cd, Q_short }

EvalQueries == { Q_empty, Q_ab, Q_abc, Q_abx, Q_abce, Q_abcd, Q_ab_cd, Q_ab_xy,
                 Q_not_ab, Q_cd_not_ab, Q_ab_cd_not_ae, Q_not_aex }

\* filter settings: [tagBits, excludeTagBits, hidden, hideChapter, needLogin, lock]
Filter(t, x, h, hc, nl, lk) ==
  [tagBits |-> t, excludeTagBits |-> x, hidden |-> h, hideChapter |-> hc,
   needLogin |-> nl, lock |-> lk]

NoFilter == Filter(<<>>, <<>>, "any", "any", "any", "any")

EvalFilters ==
  { Filter(t, <<>>, "any", "any", "any", "any") :
      t \in { <<0>>, <<32>>, <<0, 32>>, <<31>>, <<49>>, <<31, 49>> } }
  \cup { Filter(<<>>, x, "any", "any", "any", "any") : x \in { <<0>>, <<31>>, <<49>> } }
  \cup { Filter(<<0>>, <<31>>, "any", "any", "any", "any") }
  \cup { Filter(<<>>, <<>>, m, "any", "any", "any") : m \in {"only0", "only1"} }
  \cup { Filter(<<>>, <<>>, "any", m, "any", "any") : m \in {"only0", "only1"} }
  \cup { Filter(<<>>, <<>>, "any", "any", m, "any") : m \in {"only0", "only1"} }
  \cup { Filter(<<>>, <<>>, "any", "any", "any", m) : m \in {"only0", "only1"} }
  \cup { Filter(<<32>>, <<>>, "only0", "any", "any", "only0") }

WithFilter(q, f, sort, page, size) ==
  Search(1, q, f.tagBits, f.excludeTagBits, f.hidden, f.hideChapter,
         f.needLogin, f.lock, sort, page, size)

EvalMessages ==
  { WithFilter(q, NoFilter, sort, 1, 20) : q \in EvalQueries, sort \in SortModes }
  \cup
  { WithFilter(q, NoFilter, "relevance", ps[1], ps[2]) :
      q \in EvalQueries, ps \in { <<1, 2>>, <<2, 2>> } }
  \cup
  { WithFilter(q, f, "id_asc", 1, 20) :
      q \in { Q_empty, Q_ab, Q_ab_cd, Q_cd_not_ab }, f \in EvalFilters }
  \cup
  { WithFilter(q, f, sort, 1, 20) :
      q \in { Q_ab, Q_ab_cd, Q_not_ab },
      f \in { Filter(<<0>>, <<31>>, "any", "any", "any", "any"),
              Filter(<<32>>, <<>>, "only0", "any", "any", "only0") },
      sort \in { "relevance", "id_desc" } }
  \cup
  { WithFilter(q, Filter(<<>>, <<>>, "any", "any", "any", "only0"), sort, 1, 20) :
      q \in { Q_empty, Q_not_aex }, sort \in SortModes }
  \cup
  { WithFilter(q, NoFilter, "relevance", 1, 20) : q \in ParseQueries }
  \cup
  { WithFilter(q, Filter(t, <<31>>, "any", "any", "any", "only0"), sort, 1, 20) :
      q \in { Q_ab, Q_not_aex }, t \in { <<0, 32>>, <<32, 49>> },
      sort \in { "relevance", "id_desc" } }
  \cup
  { WithFilter(Q_ab_cd, NoFilter, "id_asc", ps[1], ps[2]) :
      ps \in { <<0, 0>>, <<1, 1>>, <<2, 1>>, <<2, 3>>, <<3, 2>>, <<1, 200>> } }

\* the deployment of the one-doc corpus: a single meta shard
DeployAbc == Deployment(1, 0, << <<0>> >>)

EvalInit ==
  /\ corpus \in DOMAIN Corpora
  /\ conn = ConnFast
  /\ deploy = IF corpus = 2 THEN DeployMain ELSE DeployAbc
  /\ stateLoaded = TRUE
  /\ initPc = "ready"
  /\ initAssets = [a \in InitAssetsOf(deploy) |-> "ok"]
  /\ idb = Shards
  /\ indexCache = Shards
  /\ indexInflight = [sh \in Shards |-> NULL]
  /\ loads = {}
  /\ aborted = {}
  /\ searching = FALSE
  /\ pendingSearch = NULL
  /\ activeSearchAbort = 0
  /\ loopPc = "idle"
  /\ msg = NULL
  /\ waiting = {}
  /\ loopErr = "none"
  /\ preloadStarted = FALSE
  /\ preNext = 0
  /\ worker = [w \in Workers |-> WorkerOff]
  /\ cache = NULL
  /\ scratch = ScratchClean(corpus)
  /\ posted = <<>>
  /\ received = 0
  /\ evaluated = {}
  /\ transportFailed = FALSE
  /\ LoadOff

EvalSearch(m) ==
  /\ m \in EvalMessages
  /\ \E r \in {searchSync(corpus, indexCache, cache, m)} :
         /\ cache' = r.cache
         /\ scratch' = scratchAfter(corpus, indexCache, cache, scratch, m)
         /\ posted' = <<r.result>>
  /\ received' = 1
  /\ msg' = m
  /\ activeSearchAbort' = m.requestId
  /\ evaluated' = {m.requestId}
  /\ UNCHANGED <<storeVars, loadVars, corpus, conn, initVars, loaderVars, aborted, searching,
                 pendingSearch, loopPc, waiting, loopErr, preloadVars,
                 transportFailed>>

EvalNext == \E m \in EvalMessages : EvalSearch(m)

EvalSpec == EvalInit /\ [][EvalNext]_vars

\* ------------------------------------------------------------------------
\* init() over the deployments, well-formed and not
\* ------------------------------------------------------------------------
DeployInit ==
  /\ corpus = 2
  /\ conn = ConnFast
  /\ deploy \in Deployments
  /\ InitVarsOff
  /\ idb = {}
  /\ indexCache = {}
  /\ indexInflight = [sh \in Shards |-> NULL]
  /\ loads = {}
  /\ aborted = {}
  /\ searching = FALSE
  /\ pendingSearch = NULL
  /\ activeSearchAbort = 0
  /\ loopPc = "idle"
  /\ msg = NULL
  /\ waiting = {}
  /\ loopErr = "none"
  /\ preloadStarted = FALSE
  /\ preNext = 0
  /\ worker = [w \in Workers |-> WorkerOff]
  /\ cache = NULL
  /\ scratch = ScratchClean(corpus)
  /\ posted = <<>>
  /\ received = 0
  /\ evaluated = {}
  /\ transportFailed = FALSE
  /\ LoadOff

DeployNext ==
  \/ InitMessage
  \/ \E outcome \in {"ok", "404", "transport"} : InitManifest(outcome)
  \/ \E ok \in BOOLEAN : InitOpenDb(ok)
  \/ \E a \in DOMAIN initAssets, ok \in BOOLEAN : InitAsset(a, ok)
  \/ InitDone

DeploySpec == DeployInit /\ [][DeployNext]_vars

\* ------------------------------------------------------------------------
\* The worker under any connection, with searches that may carry no intent
\* ------------------------------------------------------------------------
\* the queries the page sends here: "", "a" and "ab"
PageQueries == { <<>>, << <<97>> >>, << <<97, 98>> >> }

PageMessages(requestId) ==
  { Search(requestId, q, <<>>, <<>>, "any", "any", "any", "any", "relevance", 1, 20) :
      q \in PageQueries }

PageInit ==
  /\ corpus = 2
  /\ conn \in Connections
  /\ deploy = DeployMain
  /\ InitVarsOff
  /\ idb = {}
  /\ indexCache = {}
  /\ indexInflight = [sh \in Shards |-> NULL]
  /\ loads = {}
  /\ aborted = {}
  /\ searching = FALSE
  /\ pendingSearch = NULL
  /\ activeSearchAbort = 0
  /\ loopPc = "idle"
  /\ msg = NULL
  /\ waiting = {}
  /\ loopErr = "none"
  /\ preloadStarted = FALSE
  /\ preNext = 0
  /\ worker = [w \in Workers |-> WorkerOff]
  /\ cache = NULL
  /\ scratch = ScratchClean(corpus)
  /\ posted = <<>>
  /\ received = 0
  /\ evaluated = {}
  /\ transportFailed = FALSE
  /\ LoadOff

PageNext ==
  \/ InitMessage
  \/ \E outcome \in {"ok", "404", "transport"} : InitManifest(outcome)
  \/ \E ok \in BOOLEAN : InitOpenDb(ok)
  \/ \E a \in DOMAIN initAssets, ok \in BOOLEAN : InitAsset(a, ok)
  \/ InitDone
  \/ \E m \in PageMessages(received + 1) : Receive(m)
  \/ LoopHead
  \/ LoopResolved
  \/ LoopRejected
  \/ \E l \in loads : IdbGetDone(l)
  \/ \E l \in loads : IdbGetFail(l)
  \/ \E l \in loads, gzip \in BOOLEAN, stored \in BOOLEAN : FetchDone(l, gzip, stored)
  \/ \E l \in loads, stored \in BOOLEAN : GunzipDone(l, stored)
  \/ \E l \in loads : FetchFail(l)
  \/ PreloadStart
  \/ \E w \in Workers : WorkerStep(w)

PageSpec == PageInit /\ [][PageNext]_vars

\* ------------------------------------------------------------------------
\* The worker with its cache writes and the pruning of the store followed:
\* every idbPut and the idbPrune are readwrite transactions on the one object
\* store, which IndexedDB runs one at a time in the order of their creation
\* ------------------------------------------------------------------------
\* a key left in the store by an older manifest
OldKey == <<"old", 0>>

IndexKey(sh) == <<"index", sh>>

PutOf(key) == <<"put", key>>
PruneTx == <<"prune", <<"all", 0>>>>

\* variant: the index shards are left out of the keys to keep
keepKeys_withoutIndex(dep, shards) == InitAssetsOf(dep)

\* keepKeys: the sha256 of tags, dict, every meta shard and every index shard
keepKeys(dep, shards) == InitAssetsOf(dep) \cup { IndexKey(sh) : sh \in shards }

\* the query the page sends here: "ab"
StoreMessages(requestId) ==
  { Search(requestId, << <<97, 98>> >>, <<>>, <<>>, "any", "any", "any", "any", "relevance", 1, 20) }

StoreInit ==
  /\ corpus = 2
  /\ conn = ConnFast
  /\ deploy = DeployMain
  /\ InitVarsOff
  /\ idb \in {{}, {0}}
  /\ indexCache = {}
  /\ indexInflight = [sh \in Shards |-> NULL]
  /\ loads = {}
  /\ aborted = {}
  /\ searching = FALSE
  /\ pendingSearch = NULL
  /\ activeSearchAbort = 0
  /\ loopPc = "idle"
  /\ msg = NULL
  /\ waiting = {}
  /\ loopErr = "none"
  /\ preloadStarted = FALSE
  /\ preNext = 0
  /\ worker = [w \in Workers |-> WorkerOff]
  /\ cache = NULL
  /\ scratch = ScratchClean(corpus)
  /\ posted = <<>>
  /\ received = 0
  /\ evaluated = {}
  /\ transportFailed = FALSE
  /\ asset = AssetRef(BodyIndex, BodyIndex)
  /\ hasDecompressionStream = TRUE
  /\ store = [k \in AssetKeys |-> NoEntry]
  /\ call = CallIdle
  /\ calls = 0
  /\ writes = {}
  /\ UnitsOff
  /\ others \in { {OldKey} \cup InitAssetsOf(deploy),
                  {OldKey} \cup (InitAssetsOf(deploy) \ {<<"dict", 0>>}) }
  /\ txq = <<>>
  /\ prunePc = "off"

\* a load of init settles; the asset came from the store, or it was fetched
\* and its idbPut is started
StoreInitAsset(a, ok) ==
  /\ InitAssetStep(a, ok)
  /\ txq' = IF ok /\ a \notin others THEN Append(txq, PutOf(a)) ELSE txq
  /\ UNCHANGED <<others, prunePc>>

\* the body of an index shard arrived, sent as it is; its idbPut is started
StoreFetchDone(l) ==
  /\ FetchDoneStep(l, FALSE, FALSE)
  /\ txq' = Append(txq, PutOf(IndexKey(l.shard)))
  /\ UNCHANGED <<others, prunePc>>

\* setTimeout(..., 0) after ready: void idbPrune(db, keepKeys).catch(...)
PruneTimer ==
  /\ ~MicroPending
  /\ stateLoaded /\ prunePc = "off"
  /\ prunePc' = "queued"
  /\ txq' = Append(txq, PruneTx)
  /\ UNCHANGED <<loadVars, corpus, conn, scratch, initVars, loaderVars, aborted,
                 loopVars, preloadVars, cache, posted, received, evaluated,
                 transportFailed, others>>

\* the cursor of idbPrune: every key not in keep is deleted
pruned(keys, keep) == { k \in keys : k \in keep }

\* variant: the rejection of a cache write is reported to the page
putCatch_reports(out) == Append(out, [type |-> "progress", stage |-> "failed"])

\* void idbPut(...).catch(() => {}): the handler does nothing
putCatch(out) == out

\* the oldest transaction completes or aborts; an aborted one changes nothing,
\* and the rejection of its promise is swallowed
TxDone(ok) ==
  /\ ~MicroPending
  /\ txq # <<>>
  /\ txq' = Tail(txq)
  /\ posted' = IF Head(txq)[1] = "put" /\ ~ok THEN putCatch(posted) ELSE posted
  /\ LET t == Head(txq)
         keep == keepKeys(deploy, Shards)
     IN  IF t[1] = "put"
         THEN /\ idb' = IF ok /\ t[2][1] = "index" THEN idb \cup {t[2][2]} ELSE idb
              /\ others' = IF ok /\ t[2][1] # "index" THEN others \cup {t[2]} ELSE others
              /\ UNCHANGED prunePc
         ELSE /\ idb' = IF ok THEN { sh \in idb : IndexKey(sh) \in keep } ELSE idb
              /\ others' = IF ok THEN pruned(others, keep) ELSE others
              /\ prunePc' = IF ok THEN "done" ELSE "failed"
  /\ UNCHANGED <<loadVars, corpus, conn, scratch, initVars, indexCache, indexInflight,
                 loads, aborted, loopVars, preloadVars, cache, received,
                 evaluated, transportFailed>>

StoreNext ==
  \/ InitMessage
  \/ \E outcome \in {"ok", "404", "transport"} : InitManifest(outcome)
  \/ \E ok \in BOOLEAN : InitOpenDb(ok)
  \/ \E a \in DOMAIN initAssets, ok \in BOOLEAN : StoreInitAsset(a, ok)
  \/ InitDone
  \/ \E m \in StoreMessages(received + 1) : Receive(m)
  \/ LoopHead
  \/ LoopResolved
  \/ LoopRejected
  \/ \E l \in loads : IdbGetDone(l)
  \/ \E l \in loads : IdbGetFail(l)
  \/ \E l \in loads : StoreFetchDone(l)
  \/ \E l \in loads : FetchFail(l)
  \/ PruneTimer
  \/ \E ok \in BOOLEAN : TxDone(ok)
  \/ PreloadStart
  \/ \E w \in Workers : WorkerStep(w)

StoreSpec == StoreInit /\ [][StoreNext]_vars

\* ------------------------------------------------------------------------
\* loadAsset for one asset: the store, the server and the runtime vary
\* ------------------------------------------------------------------------
LoadInit ==
  /\ corpus = 2
  /\ conn = ConnFast
  /\ deploy = DeployMain
  /\ InitVarsOff
  /\ idb = {}
  /\ indexCache = {}
  /\ indexInflight = [sh \in Shards |-> NULL]
  /\ loads = {}
  /\ aborted = {}
  /\ searching = FALSE
  /\ pendingSearch = NULL
  /\ activeSearchAbort = 0
  /\ loopPc = "idle"
  /\ msg = NULL
  /\ waiting = {}
  /\ loopErr = "none"
  /\ preloadStarted = FALSE
  /\ preNext = 0
  /\ worker = [w \in Workers |-> WorkerOff]
  /\ cache = NULL
  /\ scratch = ScratchClean(corpus)
  /\ posted = <<>>
  /\ received = 0
  /\ evaluated = {}
  /\ transportFailed = FALSE
  /\ asset \in { AssetRef(raw, distBody(raw, shorter)) :
                   raw \in Bodies, shorter \in BOOLEAN }
  /\ hasDecompressionStream \in BOOLEAN
  /\ store \in { [k \in AssetKeys |-> NoEntry],
                 [k \in AssetKeys |-> IF k = "G" THEN BodyMeta ELSE NoEntry],
                 [k \in AssetKeys |-> IF k = "H" THEN asset.raw ELSE NoEntry] }
  /\ call = CallIdle
  /\ calls = 0
  /\ writes = {}
  /\ UnitsOff
  /\ others = {}
  /\ txq = <<>>
  /\ prunePc = "untracked"

\* loadAsset(db, asset) is called
LoadCall ==
  /\ call.pc \in {"idle", "done", "failed"}
  /\ calls < MaxCalls
  /\ calls' = calls + 1
  /\ call' = [CallIdle EXCEPT !.pc = "get"]
  /\ UNCHANGED <<workerVars, unitVars, asset, hasDecompressionStream, store, writes>>

\* variant: the lookup result is ignored
idbHit_never(data) == FALSE

\* if (cached) return cached
idbHit(data) == data # NoEntry

\* idbGet settles: on a hit the call returns, on a miss the GET is issued
LoadGet(ok) ==
  /\ call.pc = "get"
  /\ call' = IF ~ok THEN [call EXCEPT !.pc = "failed"]
             ELSE IF idbHit(store[asset.sha256])
             THEN [call EXCEPT !.pc = "done", !.result = store[asset.sha256]]
             ELSE [call EXCEPT !.pc = "fetch", !.gets = @ + 1]
  /\ UNCHANGED <<workerVars, unitVars, asset, hasDecompressionStream, store, calls, writes>>

\* fetchArrayBuffer settles: the body as the server holds it, or an error
LoadFetch(ok) ==
  /\ call.pc = "fetch"
  /\ call' = IF ok THEN [call EXCEPT !.pc = "gunzip", !.buf = asset.body]
             ELSE [call EXCEPT !.pc = "failed"]
  /\ UNCHANGED <<workerVars, unitVars, asset, hasDecompressionStream, store, calls, writes>>

\* maybeGunzipArrayBuffer settles; void idbPut(...); return decoded
LoadGunzip ==
  /\ call.pc = "gunzip"
  /\ LET r == maybeGunzipArrayBuffer(call.buf, hasDecompressionStream)
     IN  IF r.ok
         THEN /\ call' = [call EXCEPT !.pc = "done", !.result = r.data,
                                      !.put = r.data]
              /\ writes' = writes \cup {[key |-> asset.sha256, data |-> r.data]}
         ELSE /\ call' = [call EXCEPT !.pc = "failed"]
              /\ UNCHANGED writes
  /\ UNCHANGED <<workerVars, unitVars, asset, hasDecompressionStream, store, calls>>

\* an idbPut transaction completes or fails; its rejection is swallowed
PutSettle(w, ok) ==
  /\ w \in writes
  /\ writes' = writes \ {w}
  /\ store' = IF ok THEN [store EXCEPT ![w.key] = w.data] ELSE store
  /\ UNCHANGED <<workerVars, unitVars, asset, hasDecompressionStream, call, calls>>

LoadNext ==
  \/ LoadCall
  \/ \E ok \in BOOLEAN : LoadGet(ok)
  \/ \E ok \in BOOLEAN : LoadFetch(ok)
  \/ LoadGunzip
  \/ \E w \in writes, ok \in BOOLEAN : PutSettle(w, ok)

LoadSpec == LoadInit /\ [][LoadNext]_vars


\* ------------------------------------------------------------------------
\* Vocabulary of the properties
\* ------------------------------------------------------------------------
IsResults(o) == o.type = "results"
IsFailure(o) == o.type = "progress" /\ o.stage = "failed"

ResultsFor(requestId) ==
  { i \in DOMAIN posted : IsResults(posted[i]) /\ posted[i].requestId = requestId }

\* the results messages that answer the message at hand, each with it
Answers ==
  { <<posted[i], msg>> :
      i \in { j \in DOMAIN posted :
                 /\ IsResults(posted[j])
                 /\ msg # NULL
                 /\ posted[j].requestId = msg.requestId } }

DocOfId(c, id) == CHOOSE d \in DocIds(c) : metaIds(c, d) = id

ItemDocs(c, res) == { DocOfId(c, res.items[i].id) : i \in DOMAIN res.items }

\* the shards the dictionary assigns to the tokens of a request
NeededShards(m) ==
  shardIdsOf(corpus, collectTokenIdxs(corpus, parseQuery(m.q).include
                                              \o parseQuery(m.q).exclude))

\* bigram coverage, stated on the docs themselves
TermBigrams(term) == Range(uniqNgrams(term))

TermHits(c, term, d) ==
  Cardinality({ g \in TermBigrams(term) : tokenKey(g) \in DocKeys(c, d) })

TermFound(c, term) ==
  Cardinality({ g \in TermBigrams(term) :
                  \E d \in DocIds(c) : tokenKey(g) \in DocKeys(c, d) })

\* the least n >= 1 with n >= 0.6 * k
CoverageNeed(k) ==
  CHOOSE n \in 1 .. Max2(1, k) : 10 * n >= 6 * k /\ (n = 1 \/ 10 * (n - 1) < 6 * k)

\* the threshold over all bigrams of the term
MatchesAllBigrams(c, term, d) ==
  TermHits(c, term, d) >= Min2(Cardinality(TermBigrams(term)),
                               CoverageNeed(Cardinality(TermBigrams(term))))

\* the threshold clamped to the bigrams the dictionary knows
MatchesKnownBigrams(c, term, d) ==
  /\ TermFound(c, term) >= 1
  /\ TermHits(c, term, d) >= Min2(TermFound(c, term),
                                  CoverageNeed(Cardinality(TermBigrams(term))))

ExcludedDoc(c, m, d) ==
  \E t \in Range(parseQuery(m.q).exclude) : MatchesKnownBigrams(c, t, d)

StatusOk(mode, isSet) ==
  mode = "any" \/ (mode = "only0" /\ ~isSet) \/ (mode = "only1" /\ isSet)

\* the request's filters, read off a result item
FilterOk(m, item) ==
  /\ Range(m.tagBits) \subseteq item.tags
  /\ Range(m.excludeTagBits) \cap item.tags = {}
  /\ StatusOk(m.hidden, item.hidden)
  /\ StatusOk(m.hideChapter, item.isHideChapter)
  /\ StatusOk(m.needLogin, item.needLogin)
  /\ StatusOk(m.lock, item.isLock)

AllIdentity(m) ==
  /\ m.tagBits = <<>> /\ m.excludeTagBits = <<>>
  /\ m.hidden = "any" /\ m.hideChapter = "any"
  /\ m.needLogin = "any" /\ m.lock = "any"

\* ------------------------------------------------------------------------
\* C1  Latest-wins (safety): a results message carries the requestId of the
\* most recently received search message; a search superseded before it
\* finished posts no results.
\* ------------------------------------------------------------------------
C1_LatestWins ==
  [][\A i \in (Len(posted) + 1) .. Len(posted') :
        IsResults(posted'[i]) => posted'[i].requestId = received]_vars

\* request 2 is answered after it superseded request 1, which posts nothing
C1_Witness ==
  /\ ResultsFor(2) # {}
  /\ ResultsFor(1) = {}
  /\ 1 \in aborted
  /\ 1 \in evaluated
  /\ ~transportFailed

\* ------------------------------------------------------------------------
\* C2  Latest-wins (liveness): with no transport failure, the last search
\* message received by the ready engine gets exactly one results message.
\* When the loop is idle nothing more will be posted, so by then the last
\* accepted request must have its results.
\* ------------------------------------------------------------------------
C2_LastSearchAnswered ==
  (/\ stateLoaded /\ ~transportFailed
   /\ loopPc = "idle" /\ pendingSearch = NULL
   /\ received > 0 /\ activeSearchAbort = received)
  => Cardinality(ResultsFor(received)) = 1

\* ------------------------------------------------------------------------
\* C3  Cancellation, as claimed: a newer message that arrives while search S
\* waits for shards trips S's signal, and S gives up its wait: the wait never
\* ends with the loads finished and S's query about to be evaluated.
\* ------------------------------------------------------------------------
C3_AbandonsWait ==
  /\ (pendingSearch # NULL /\ loopPc \in {"await", "resolved", "rejected"})
        => msg.requestId \in aborted
  /\ pendingSearch # NULL => loopPc # "resolved"

\* C3 as amended: the signal of S is tripped at once; S's wait ends at once
\* when it awaits a network fetch carrying that signal, otherwise it lasts
\* until an awaited load settles; however the wait ends, S posts neither
\* results nor a failure, and the newer search is taken up only after S's
\* searchAsync has settled.
C3_Cancellation ==
  /\ []((pendingSearch # NULL /\ loopPc \in {"await", "resolved", "rejected"})
          => msg.requestId \in aborted)
  /\ [][(/\ loopPc = "await" /\ stateLoaded /\ received' = received + 1
         /\ \E l \in loads : /\ l.phase = "fetch" /\ l.sig = msg.requestId
                             /\ LoadId(l) \in waiting)
        => (loopPc' = "rejected" /\ loopErr' = "abort")]_vars
  /\ [][(pendingSearch # NULL /\ loopPc \in {"resolved", "rejected"})
        => posted' = posted]_vars
  /\ [][msg' # msg => loopPc = "head"]_vars

\* a superseded search whose fetch was aborted under it
C3_Witness ==
  /\ loopPc = "rejected" /\ loopErr = "abort"
  /\ pendingSearch # NULL
  /\ msg.requestId \in aborted

\* ------------------------------------------------------------------------
\* C4  Per-shard single-flight: at most one asset load per shard is in
\* progress, it is the one the registry names, whoever waits for the shard
\* waits for that load, and a shard in indexCache is never loaded again.
\* ------------------------------------------------------------------------
C4_SingleFlight ==
  /\ \A sh \in Shards : Cardinality({ l \in loads : l.shard = sh }) <= 1
  /\ \A l \in loads : l.shard \notin indexCache /\ indexInflight[l.shard] = LoadId(l)
  /\ \A id \in waiting : \E l \in loads : LoadId(l) = id
  /\ \A w \in Workers :
        worker[w].st = "await" => \E l \in loads : LoadId(l) = worker[w].on

\* a search waits for a load that somebody else started
C4_Witness ==
  /\ loopPc = "await"
  /\ \E id \in waiting : id[2] # msg.requestId

\* ------------------------------------------------------------------------
\* C5  ensureIndexForTokenIdxs resolves only when every shard the request
\* needs is in indexCache, so no evaluation fails on an unloaded shard.
\* ------------------------------------------------------------------------
C5_ShardsLoaded ==
  /\ loopPc = "resolved" => NeededShards(msg) \subseteq indexCache
  /\ \A i \in DOMAIN posted : IsFailure(posted[i]) => posted[i].reason # "notLoaded"

\* a request with include and exclude terms in two shards is about to be
\* evaluated after a wait
C5_Witness ==
  /\ loopPc = "resolved"
  /\ Cardinality(NeededShards(msg)) >= 2
  /\ Len(parseQuery(msg.q).exclude) > 0
  /\ \E i \in DOMAIN posted : posted[i].type = "progress" /\ posted[i].stage = "loading"

\* ------------------------------------------------------------------------
\* C6  Multi-term inclusion is a conjunction: with two or more include
\* terms, every doc of the result is a match for each include term.
\* ------------------------------------------------------------------------
C6_Conjunction ==
  \A a \in Answers :
    Len(parseQuery(a[2].q).include) >= 2 =>
      \A d \in ItemDocs(corpus, a[1]) :
        \A t \in Range(parseQuery(a[2].q).include) :
          MatchesKnownBigrams(corpus, t, d)

\* ------------------------------------------------------------------------
\* C7  Coverage threshold, as claimed: with a single include term of k
\* distinct bigrams and nothing else restricting the result, the docs found
\* are those with at least min(k, max(1, ceil(0.6 k))) of the term's bigrams.
\* ------------------------------------------------------------------------
C7_ThresholdOverAllBigrams ==
  \A a \in Answers :
    (/\ Len(parseQuery(a[2].q).include) = 1
     /\ Len(parseQuery(a[2].q).exclude) = 0
     /\ AllIdentity(a[2]))
    => LET term == parseQuery(a[2].q).include[1]
           M == { d \in DocIds(corpus) : MatchesAllBigrams(corpus, term, d) }
       IN  /\ ItemDocs(corpus, a[1]) \subseteq M
           /\ a[1].total = Cardinality(M)

\* C7 as amended: the threshold is clamped to the f >= 1 bigrams of the term
\* that the dictionary knows: a doc is a match iff it has at least
\* min(f, max(1, ceil(0.6 k))) of them; the result of a single-term search is
\* the set of matches that pass the filters and match no exclude term.
C7_Threshold ==
  \A a \in Answers :
    Len(parseQuery(a[2].q).include) = 1
    => LET term == parseQuery(a[2].q).include[1]
           M == { d \in DocIds(corpus) :
                    /\ MatchesKnownBigrams(corpus, term, d)
                    /\ FilterOk(a[2], buildItem(corpus, d))
                    /\ ~ExcludedDoc(corpus, a[2], d) }
       IN  /\ ItemDocs(corpus, a[1]) \subseteq M
           /\ a[1].total = Cardinality(M)

\* 'abx' against the corpus whose only text is 'abc' returns the doc
C7_Witness ==
  \E a \in Answers :
    /\ corpus = 1
    /\ a[2].q = Q_abx
    /\ a[1].total = 1
    /\ Len(a[1].items) = 1

\* ------------------------------------------------------------------------
\* C8  Exclusion: no doc that matches an exclude term appears in a result,
\* and no such doc is counted in the total.
\* ------------------------------------------------------------------------
C8_Exclusion ==
  \A a \in Answers :
    /\ \A d \in ItemDocs(corpus, a[1]) : ~ExcludedDoc(corpus, a[2], d)
    /\ a[1].total <= Cardinality({ d \in DocIds(corpus) :
                                     ~ExcludedDoc(corpus, a[2], d) })

\* a search with an include and an exclude term returns a doc while another
\* doc that matches the include term is excluded
C8_Witness ==
  \E a \in Answers :
    /\ Len(parseQuery(a[2].q).include) >= 1
    /\ Len(a[1].items) >= 1
    /\ \E d \in DocIds(corpus) :
         /\ ExcludedDoc(corpus, a[2], d)
         /\ FilterOk(a[2], buildItem(corpus, d))
         /\ \E t \in Range(parseQuery(a[2].q).include) :
              MatchesKnownBigrams(corpus, t, d)

\* ------------------------------------------------------------------------
\* C9  Filter soundness: every doc of every results message has all the
\* selected tag bits, none of the excluded tag bits, and passes each of the
\* four tri-state status filters.
\* ------------------------------------------------------------------------
C9_FilterSoundness ==
  \A a \in Answers :
    \A i \in DOMAIN a[1].items : FilterOk(a[2], a[1].items[i])

\* a filter on a tag of the high word and on two status bits returns docs and
\* keeps others out
C9_Witness ==
  \E a \in Answers :
    /\ \E b \in Range(a[2].tagBits) : b >= 32
    /\ a[2].hidden # "any"
    /\ Len(a[1].items) >= 1
    /\ \E d \in DocIds(corpus) : ~FilterOk(a[2], buildItem(corpus, d))

\* ------------------------------------------------------------------------
\* C10  Empty intent, as claimed: no include terms and identity filters give
\* an empty result, with or without exclude terms.
\* ------------------------------------------------------------------------
C10_EmptyWhateverExcluded ==
  \A a \in Answers :
    (Len(parseQuery(a[2].q).include) = 0 /\ AllIdentity(a[2]))
    => (a[1].total = 0 /\ a[1].items = <<>>)

\* C10 as amended: with no include terms and identity filters the result is
\* empty when the query has no exclude terms either; with exclude terms the
\* result is the corpus minus the docs that match an exclude term.
C10_EmptyIntent ==
  \A a \in Answers :
    (Len(parseQuery(a[2].q).include) = 0 /\ AllIdentity(a[2]))
    => IF Len(parseQuery(a[2].q).exclude) = 0
       THEN a[1].total = 0 /\ a[1].items = <<>>
       ELSE LET M == { d \in DocIds(corpus) : ~ExcludedDoc(corpus, a[2], d) }
            IN  /\ ItemDocs(corpus, a[1]) \subseteq M
                /\ a[1].total = Cardinality(M)

\* an exclude-only query with identity filters returns the rest of the corpus
C10_Witness ==
  \E a \in Answers :
    /\ Len(parseQuery(a[2].q).include) = 0
    /\ Len(parseQuery(a[2].q).exclude) > 0
    /\ AllIdentity(a[2])
    /\ a[1].total > 0
    /\ \E d \in DocIds(corpus) : ExcludedDoc(corpus, a[2], d)

\* ------------------------------------------------------------------------
\* Vocabulary of the result vector
\* ------------------------------------------------------------------------
IsAscending(v) == \A i \in 1 .. (Len(v) - 1) : v[i] < v[i + 1]
IsDescending(v) == \A i \in 1 .. (Len(v) - 1) : v[i] > v[i + 1]

\* the result cache holds the vector of the plan of the message at hand
VectorAtHand ==
  /\ msg # NULL /\ cache # NULL
  /\ cache.key = cacheKey(msg, parseQuery(msg.q))
  /\ Answers # {}

\* the docs that pass the filters of m and match none of its exclude terms
Browsable(c, m) ==
  { d \in DocIds(c) : FilterOk(m, buildItem(c, d)) /\ ~ExcludedDoc(c, m, d) }

\* ------------------------------------------------------------------------
\* C11  Filter-only browse: with no include terms and a non-identity filter
\* the result vector holds exactly the docs that pass the filters and match
\* no exclude term, each once, ascending by doc-id for id_asc and descending
\* for id_desc and relevance.
\* ------------------------------------------------------------------------
C11_FilterBrowse ==
  (/\ VectorAtHand
   /\ Len(parseQuery(msg.q).include) = 0
   /\ ~AllIdentity(msg))
  => /\ Range(cache.docIds) = Browsable(corpus, msg)
     /\ Len(cache.docIds) = Cardinality(Browsable(corpus, msg))
     /\ IF msg.sort = "id_asc" THEN IsAscending(cache.docIds)
                               ELSE IsDescending(cache.docIds)

\* a browse by relevance with a status filter and an exclude term: two docs
\* are listed, one is filtered out and one is excluded
C11_Witness ==
  /\ VectorAtHand
  /\ Len(parseQuery(msg.q).include) = 0
  /\ Len(parseQuery(msg.q).exclude) > 0
  /\ ~AllIdentity(msg)
  /\ msg.sort = "relevance"
  /\ Len(cache.docIds) >= 2
  /\ \E d \in DocIds(corpus) : ~FilterOk(msg, buildItem(corpus, d))
  /\ \E d \in DocIds(corpus) : ExcludedDoc(corpus, msg, d)

\* ------------------------------------------------------------------------
\* C12  Result-cache transparency: a results message equals the one an
\* evaluation with an empty result cache produces; the cached vector is kept
\* and served when sort, status filters, tag masks, include and exclude terms
\* equal the cached plan, whatever page and size, and replaced otherwise.
\* ------------------------------------------------------------------------
\* the planner fields of a search message
PlanOf(m) ==
  [sort |-> m.sort, hidden |-> m.hidden, hideChapter |-> m.hideChapter,
   needLogin |-> m.needLogin, lock |-> m.lock,
   tags |-> { b \in Range(m.tagBits) : b >= 0 /\ b < 64 },
   excludedTags |-> { b \in Range(m.excludeTagBits) : b >= 0 /\ b < 64 },
   include |-> parseQuery(m.q).include, exclude |-> parseQuery(m.q).exclude]

C12_CacheTransparency ==
  /\ [](\A a \in Answers :
          a[1] = searchSync(corpus, indexCache, NULL, a[2]).result)
  /\ [][(msg # NULL /\ cache # NULL /\ cache.key = cacheKey(msg, parseQuery(msg.q)))
        => /\ PlanOf(msg') = PlanOf(msg) => cache' = cache
           /\ PlanOf(msg') # PlanOf(msg) =>
                /\ cache'.key # cache.key
                /\ cache'.key = cacheKey(msg', parseQuery(msg'.q))]_vars

\* page 2 of a plan is served from the vector that page 1 left in the cache
C12_Witness ==
  /\ VectorAtHand
  /\ msg.page = 2 /\ msg.size = 2
  /\ Len(cache.docIds) >= 3
  /\ \E a \in Answers : Len(a[1].items) >= 1 /\ a[1].total = Len(cache.docIds)

\* ------------------------------------------------------------------------
\* C13  Pagination: page p of size s of a plan with result vector V holds
\* the elements of V at positions [(p-1)*s, p*s), total is |V|, hasMore
\* holds iff p*s < |V|, and the pages of one size concatenated give V.
\* p and s are the page and size the results message reports: the requested
\* ones when p >= 1 and 1 <= s <= 100.
\* ------------------------------------------------------------------------
\* the positions [from, to) of V, counted from 0
Positions(V, from, to) ==
  [i \in 1 .. (Min2(to, Len(V)) - Min2(from, Len(V))) |-> V[from + i]]

\* the pages 1 .. p of size s cut by the evaluator, concatenated
RECURSIVE PagesUpTo(_, _, _)
PagesUpTo(V, s, p) ==
  IF p = 0 THEN <<>> ELSE PagesUpTo(V, s, p - 1) \o sliceOf(V, (p - 1) * s, s)

TextBonus(c, d, term) ==
  (IF Contains(normText(Corpora[c][d].title), term) THEN 84 ELSE 0)
  + (IF Contains(normText(Corpora[c][d].aliases), term) THEN 36 ELSE 0)
  + (IF Contains(normText(Corpora[c][d].authors), term) THEN 24 ELSE 0)

\* the coverage a term adds to a doc that reaches the term's threshold
TermScore(c, d, term) ==
  IF MatchesKnownBigrams(c, term, d)
  THEN (TermHits(c, term, d) * ScoreScale) \div Cardinality(TermBigrams(term))
  ELSE 0

RECURSIVE RelevanceScore(_, _, _)
RelevanceScore(c, d, terms) ==
  IF terms = <<>> THEN 0
  ELSE TermScore(c, d, Head(terms)) + TextBonus(c, d, Head(terms))
       + RelevanceScore(c, d, Tail(terms))

RanksBefore(c, terms, d, e) ==
  \/ RelevanceScore(c, d, terms) > RelevanceScore(c, e, terms)
  \/ /\ RelevanceScore(c, d, terms) = RelevanceScore(c, e, terms)
     /\ metaIds(c, d) > metaIds(c, e)

C14_RelevanceOrder ==
  (/\ VectorAtHand
   /\ msg.sort = "relevance"
   /\ Len(parseQuery(msg.q).include) >= 1)
  => \A i \in 1 .. (Len(cache.docIds) - 1) :
       RanksBefore(corpus, parseQuery(msg.q).include,
                   cache.docIds[i], cache.docIds[i + 1])

\* a vector with two docs of equal score, the higher id first, followed by a
\* doc of lower score and higher id
C14_Witness ==
  /\ VectorAtHand
  /\ msg.sort = "relevance"
  /\ Len(parseQuery(msg.q).include) >= 1
  /\ Len(cache.docIds) >= 3
  /\ \E i \in 1 .. (Len(cache.docIds) - 2) :
       /\ RelevanceScore(corpus, cache.docIds[i], parseQuery(msg.q).include)
            = RelevanceScore(corpus, cache.docIds[i + 1], parseQuery(msg.q).include)
       /\ RelevanceScore(corpus, cache.docIds[i + 1], parseQuery(msg.q).include)
            > RelevanceScore(corpus, cache.docIds[i + 2], parseQuery(msg.q).include)
       /\ metaIds(corpus, cache.docIds[i + 2]) > metaIds(corpus, cache.docIds[i])

\* ------------------------------------------------------------------------
\* C15  Order monotonicity: under id_asc the result vector has strictly
\* increasing doc-ids and the items strictly increasing external ids, under
\* id_desc strictly decreasing ones, for filter-only, exclude-only,
\* single-term and multi-term queries.
\* ------------------------------------------------------------------------
ItemIds(res) == [i \in DOMAIN res.items |-> res.items[i].id]

C15_OrderMonotonicity ==
  VectorAtHand =>
    /\ msg.sort = "id_asc" =>
         /\ IsAscending(cache.docIds)
         /\ \A a \in Answers : IsAscending(ItemIds(a[1]))
    /\ msg.sort = "id_desc" =>
         /\ IsDescending(cache.docIds)
         /\ \A a \in Answers : IsDescending(ItemIds(a[1]))

\* a multi-term search by descending id with three docs or more
C15_Witness ==
  /\ VectorAtHand
  /\ msg.sort = "id_desc"
  /\ Len(parseQuery(msg.q).include) >= 2
  /\ Len(cache.docIds) >= 3
  /\ \E a \in Answers : Len(a[1].items) >= 3

\* ------------------------------------------------------------------------
\* C16  A shard load that fails during a query does not break the engine.
\* The step in which a load ends without its shard entering indexCache
\* leaves the shard out of indexInflight too and rejects the search that
\* awaited it; between tasks the loop is idle or waits for loads that are
\* still in progress; a search that starts when a shard it needs is neither
\* cached nor pending starts a load of its own for it; and a search whose
\* wait resolved with nothing newer pending posts its results.  (The
\* continuations of the loop and of the preloader interleave, so the steps
\* of the loop are the ones that move loopPc.)
\* ------------------------------------------------------------------------
LoadFailed(l) == l \in loads /\ l \notin loads' /\ l.shard \notin indexCache'

LiveLoads == { LoadId(l) : l \in loads }

FailuresFor(requestId) ==
  { i \in DOMAIN posted : IsFailure(posted[i]) /\ posted[i].requestId = requestId }

Throws ==
  \/ loopPc = "rejected"
  \/ loopPc = "resolved" /\ searchSync(corpus, indexCache, cache, msg).error

IsInitFailure(o) == o.type = "progress" /\ o.stage \in {"loadFailed", "notFound"}

InitFailures == { i \in DOMAIN posted : IsInitFailure(posted[i]) }

InitProgressStages == {"manifest", "db", "assets", "meta", "loadFailed", "notFound"}

C18_InitFailure ==
  /\ [](Cardinality(InitFailures) = IF initPc = "failed" THEN 1 ELSE 0)
  /\ [](initPc = "failed" =>
          /\ ~stateLoaded
          /\ \A i \in DOMAIN posted :
                posted[i].type = "progress" /\ posted[i].stage \in InitProgressStages
          /\ loopPc = "idle" /\ ~searching /\ pendingSearch = NULL /\ loads = {})
  /\ [][initPc = "failed" => initPc' = "failed"]_vars
  /\ [][(initPc = "manifest" /\ initPc' # initPc /\ ~metaCountOk(deploy)) =>
          initPc' = "failed"]_vars
  /\ [][(initPc = "install" /\ initPc' # initPc /\ metaConcat(deploy).err # "none") =>
          initPc' = "failed"]_vars
  /\ [][(initPc = "assets" /\ \E a \in DOMAIN initAssets : initAssets'[a] = "failed") =>
          initPc' = "failed"]_vars
  /\ [][(initPc = "failed" /\ received' # received) =>
          (posted' = posted /\ UNCHANGED <<loopVars, loaderVars, cache>>)]_vars

\* init failed on each kind of cause, and searches came afterwards
C18_Witness ==
  /\ initPc = "failed"
  /\ received = MaxRequests
  /\ \E a \in DOMAIN initAssets : IsMeta(a) /\ initAssets[a] = "failed"
  /\ \E i \in InitFailures : posted[i].stage = "loadFailed" /\ posted[i].reason = "transport"
  /\ \E i \in DOMAIN posted : i > CHOOSE j \in InitFailures : TRUE

\* ------------------------------------------------------------------------
\* C19  Readiness ordering: ready is posted once, by the step that installs
\* the state, after the manifest, the cache, tags, dict and every meta shard
\* of the manifest have been loaded; init loads no index shard, so until
\* ready and in the step that posts it indexCache is empty and no index load
\* exists; an index load is started only by a search for a shard it needs or
\* by the preloader, and a shard enters indexCache only from such a load.
\* ------------------------------------------------------------------------
ReadyPosts == { i \in DOMAIN posted : posted[i].type = "ready" }

StagePosted(stage, before) ==
  \E i \in 1 .. (before - 1) : posted[i].type = "progress" /\ posted[i].stage = stage

C19_ReadinessOrdering ==
  /\ [](Cardinality(ReadyPosts) = IF stateLoaded THEN 1 ELSE 0)
  /\ [](\A r \in ReadyPosts :
          /\ initPc = "ready"
          /\ DOMAIN initAssets = InitAssetsOf(deploy)
          /\ \A a \in InitAssetsOf(deploy) : initAssets[a] = "ok"
          /\ metaCountOk(deploy) /\ metaConcat(deploy).err = "none"
          /\ StagePosted("manifest", r) /\ StagePosted("db", r) /\ StagePosted("assets", r)
          /\ \E i \in 1 .. (r - 1) :
                /\ posted[i].type = "progress" /\ posted[i].stage = "meta"
                /\ posted[i].done = Len(deploy.shards))
  /\ [](~stateLoaded =>
          indexCache = {} /\ loads = {} /\ \A sh \in Shards : indexInflight[sh] = NULL)
  /\ [][Len(posted') > Len(posted) /\ posted'[Len(posted')].type = "ready" =>
          /\ ~stateLoaded /\ stateLoaded'
          /\ indexCache' = {} /\ loads' = {}]_vars
  /\ [][\A l \in loads' :
          (\A k \in loads : LoadId(k) # LoadId(l)) =>
             \/ /\ loopPc = "head" /\ pendingSearch # NULL
                /\ l.sig = pendingSearch.requestId
                /\ l.shard \in NeededShards(pendingSearch)
             \/ /\ l.sig = 0 /\ preloadStarted
                /\ \E w \in Workers : /\ worker[w].st = "run" /\ worker'[w].st = "await"
                                      /\ worker'[w].on = LoadId(l)]_vars
  /\ [][\A sh \in indexCache' \ indexCache : \E l \in loads \ loads' : l.shard = sh]_vars

\* ready has just been posted: nothing is cached yet; search messages that
\* came during init were dropped
C19_Witness ==
  /\ posted # <<>> /\ posted[Len(posted)].type = "ready"
  /\ stateLoaded
  /\ indexCache = {} /\ loads = {}
  /\ received > 0

\* ------------------------------------------------------------------------
\* C20  After a successful init the meta shards partition the doc-ids
\* 0 .. count-1 into contiguous ranges of width metaShardDocs, the last one
\* possibly shorter: every shard but the last holds metaShardDocs records,
\* and for every doc-id d the shard metaShardId(d) exists, metaLocalDocId(d)
\* is below its record count, and the flattened arrays hold at d the record
\* that shard holds there.  Init does not succeed on anything else.
\* ------------------------------------------------------------------------
ShardWidthsOk(dep) ==
  \A k \in DOMAIN dep.shards :
     /\ Len(dep.shards[k]) <= metaShardDocsOf(dep)
     /\ k < Len(dep.shards) => Len(dep.shards[k]) = metaShardDocsOf(dep)

DocAddressOk(dep, d) ==
  LET shardId == metaShardId(dep, d)
      localDocId == metaLocalDocId(dep, d, shardId)
  IN  /\ shardId + 1 \in DOMAIN dep.shards
      /\ localDocId < Len(dep.shards[shardId + 1])
      /\ metaConcat(dep).flat[d + 1] = dep.shards[shardId + 1][localDocId + 1]

C20_MetaPartition ==
  stateLoaded =>
    /\ ShardWidthsOk(deploy)
    /\ \A d \in 0 .. (totalCountOf(deploy) - 1) : DocAddressOk(deploy, d)

\* ------------------------------------------------------------------------
\* C25  Query parsing: the exclude list is the set of normalized bodies of
\* the minus-parts, the include list that of the other parts without the
\* excluded ones; both hold only terms of length 2 or more, are strictly
\* sorted (so free of duplicates) and disjoint; and a request whose parts
\* are those of the previous request in another order or repeated has the
\* same plan, so it is served from the result cache.
\* ------------------------------------------------------------------------
IsMinusPart(p) == Len(p) > 1 /\ p[1] \in {45, 65293}

ExcludeBodies(raw) ==
  { normText(Tail(raw[i])) : i \in { j \in DOMAIN raw : IsMinusPart(raw[j]) } }

IncludeBodies(raw) ==
  { normText(raw[i]) : i \in { j \in DOMAIN raw : ~IsMinusPart(raw[j]) } }

Usable(terms) == { t \in terms : Len(t) >= 2 }

StrictlySorted(terms) ==
  \A i \in 1 .. (Len(terms) - 1) : LexLess(terms[i], terms[i + 1])

SameButTerms(m1, m2) ==
  [m1 EXCEPT !.q = <<>>, !.requestId = 0, !.page = 1, !.size = 1]
    = [m2 EXCEPT !.q = <<>>, !.requestId = 0, !.page = 1, !.size = 1]

C25_QueryParsing ==
  /\ [](msg # NULL =>
          LET parsed == parseQuery(msg.q)
          IN  /\ Range(parsed.exclude) = Usable(ExcludeBodies(msg.q))
              /\ Range(parsed.include)
                   = Usable(IncludeBodies(msg.q)) \ Usable(ExcludeBodies(msg.q))
              /\ Range(parsed.include) \cap Range(parsed.exclude) = {}
              /\ StrictlySorted(parsed.include) /\ StrictlySorted(parsed.exclude)
              /\ \A t \in Range(parsed.include) \cup Range(parsed.exclude) : Len(t) >= 2)
  /\ [][(msg # NULL /\ Range(msg'.q) = Range(msg.q)) =>
          /\ parseQuery(msg'.q) = parseQuery(msg.q)
          /\ SameButTerms(msg, msg') => cache' = cache]_vars

\* "ab -AB cd": ab is on both sides and is kept as an exclude term only
C25_Witness ==
  /\ msg # NULL /\ msg.q = Q_ab_not_ab_cd
  /\ parseQuery(msg.q) = [include |-> << <<99, 100>> >>, exclude |-> << <<97, 98>> >>]
  /\ Answers # {}

\* ------------------------------------------------------------------------
\* C26  Tag filter composition, as claimed: with the query, the status
\* filters, the excluded tags and the sort fixed, the docs returned for the
\* selected tags A \cup B are among those returned for A and among those
\* returned for B, for every A and B.
\* ------------------------------------------------------------------------
VectorWithTags(m, tags) ==
  searchSync(corpus, indexCache, NULL, [m EXCEPT !.tagBits = SortInts(tags)]).cache.docIds

TagSplits(tags) ==
  { ab \in (SUBSET tags) \X (SUBSET tags) : ab[1] \cup ab[2] = tags }

C26_TagComposition ==
  VectorAtHand =>
    \A ab \in TagSplits(Range(msg.tagBits)) :
       Range(cache.docIds) \subseteq
         Range(VectorWithTags(msg, ab[1])) \cap Range(VectorWithTags(msg, ab[2]))

\* a request without terms and with identity filters returns nothing
EmptyIntent(m) ==
  /\ parseQuery(m.q).include = <<>> /\ parseQuery(m.q).exclude = <<>>
  /\ AllIdentity(m)

\* C26 as amended: the composition holds for every A and B except where the
\* request with A alone or with B alone has no term and no filter left, which
\* returns nothing whatever the corpus holds.
C26_TagCompositionUnlessEmptyIntent ==
  VectorAtHand =>
    \A ab \in TagSplits(Range(msg.tagBits)) :
       (/\ ~EmptyIntent([msg EXCEPT !.tagBits = SortInts(ab[1])])
        /\ ~EmptyIntent([msg EXCEPT !.tagBits = SortInts(ab[2])]))
       => Range(cache.docIds) \subseteq
            Range(VectorWithTags(msg, ab[1])) \cap Range(VectorWithTags(msg, ab[2]))

\* two tags are selected, a doc is returned, and each tag alone returns more
C26_Witness ==
  /\ VectorAtHand
  /\ Cardinality(Range(msg.tagBits)) = 2
  /\ cache.docIds # <<>>
  /\ \A t \in Range(msg.tagBits) :
        Len(VectorWithTags(msg, {t})) > Len(cache.docIds)

\* ------------------------------------------------------------------------
\* the parts followed on their own start from a worker that has received
\* nothing
\* ------------------------------------------------------------------------
WorkerAtRest ==
  /\ corpus = 2
  /\ conn = ConnFast
  /\ InitVarsOff
  /\ idb = {}
  /\ indexCache = {}
  /\ indexInflight = [sh \in Shards |-> NULL]
  /\ loads = {}
  /\ aborted = {}
  /\ searching = FALSE
  /\ pendingSearch = NULL
  /\ activeSearchAbort = 0
  /\ loopPc = "idle"
  /\ msg = NULL
  /\ waiting = {}
  /\ loopErr = "none"
  /\ preloadStarted = FALSE
  /\ preNext = 0
  /\ worker = [w \in Workers |-> WorkerOff]
  /\ cache = NULL
  /\ scratch = ScratchClean(corpus)
  /\ posted = <<>>
  /\ received = 0
  /\ evaluated = {}
  /\ transportFailed = FALSE
  /\ asset = AssetRef(BodyIndex, BodyIndex)
  /\ hasDecompressionStream = TRUE
  /\ store = [k \in AssetKeys |-> NoEntry]
  /\ call = CallIdle
  /\ calls = 0
  /\ writes = {}
  /\ others = {}
  /\ txq = <<>>
  /\ prunePc = "untracked"

\* ------------------------------------------------------------------------
\* metaShardId and metaLocalDocId over shard widths and doc-ids up to 2^31 - 1
\* ------------------------------------------------------------------------
\* manifest.stats.metaShardDocs: powers of two, their neighbours, other
\* widths, and values that make init fall back to the count
ShardWidths ==
  { -4, 0, 1, 2, 3, 4, 6, 8, 1000, 1023, 1024, 65536, 1073741823, 1073741824, 2147483647 }

\* doc-ids below the count
LocateDocIds ==
  { 0, 1, 2, 3, 5, 7, 8, 1023, 1024, 65535, 65536, 1073741823, 1073741824, 2147483646 }

\* the meta shard files are not followed here
LocateDeployments == { Deployment(2147483647, w, <<>>) : w \in ShardWidths }

LocateInit ==
  /\ WorkerAtRest
  /\ SidesOff
  /\ deploy \in LocateDeployments
  /\ locate = NotLocated
  /\ posting = NoPosting
  /\ batch = NoBatch

\* buildItem(s, docId): const shardId = metaShardId(s, docId);
\* const localDocId = metaLocalDocId(s, docId, shardId)
Locate(docId) ==
  /\ docId < totalCountOf(deploy)
  /\ locate' = [docId |-> docId, shardId |-> metaShardId(deploy, docId),
                localDocId |-> metaLocalDocId(deploy, docId, metaShardId(deploy, docId))]
  /\ UNCHANGED <<workerVars, assetVars, posting, batch, sideVars>>

LocateNext == \E docId \in LocateDocIds : Locate(docId)

LocateSpec == LocateInit /\ [][LocateNext]_vars

\* ------------------------------------------------------------------------
\* decodePostings over one posting list inside a pool of bytes
\* ------------------------------------------------------------------------
\* a | b, bit by bit, for a, b >= 0
RECURSIVE bitOr(_, _)
bitOr(a, b) ==
  IF a = 0 THEN b ELSE IF b = 0 THEN a
  ELSE (IF a % 2 = 1 \/ b % 2 = 1 THEN 1 ELSE 0) + 2 * bitOr(a \div 2, b \div 2)

\* x << k while the result stays below 2^31: a zero bit is pushed in k times
RECURSIVE shl(_, _)
shl(x, k) == IF k = 0 THEN x ELSE shl(2 * x, k - 1)

\* builder: unsigned LEB128 of a delta, low group first, 0x80 on all but the last
RECURSIVE leb128(_)
leb128(n) == IF n < 128 THEN <<n>> ELSE <<128 + (n % 128)>> \o leb128(n \div 128)

\* builder: the deltas of a strictly increasing list, taken from prev
RECURSIVE encodePostings(_, _)
encodePostings(list, prev) ==
  IF list = <<>> THEN <<>>
  ELSE leb128(Head(list) - prev) \o encodePostings(Tail(list), Head(list))

\* index[i]; beyond the array the read gives undefined, which & turns into 0
byteAt(index, i) == IF i < Len(index) THEN index[i + 1] ELSE 0

\* variant: the payload is not shifted to its place
varintOr_unshifted(value, b, shift) == bitOr(value, bitAnd(b, 127))

\* value |= (b & 0x7f) << shift
varintOr(value, b, shift) == bitOr(value, shl(bitAnd(b, 127), shift))

\* the inner loop: the bytes of one group; gives the value and the next i
RECURSIVE readVarint(_, _, _, _)
readVarint(index, i, shift, value) ==
  IF bitAnd(byteAt(index, i), 128) = 0
  THEN [value |-> varintOr(value, byteAt(index, i), shift), i |-> i + 1]
  ELSE readVarint(index, i + 1, shift + 7, varintOr(value, byteAt(index, i), shift))

\* doc-ids: around the limits of one, two, three and four bytes, and the
\* largest doc-id a count of 2^31 - 1 allows
PostingDocIds == { 0, 1, 127, 128, 129, 16384, 2097152, 268435456, 2147483646 }

MaxPostings == 3    \* doc-ids in one posting list

RECURSIVE ascending(_, _)
ascending(S, n) ==
  IF n = 0 THEN { <<>> }
  ELSE { <<>> } \cup UNION { { <<d>> \o t : t \in { u \in ascending(S, n - 1) :
                                                        u = <<>> \/ d < u[1] } } : d \in S }

\* strictly increasing lists of doc-ids
PostingLists == ascending(PostingDocIds, MaxPostings)

\* the bytes of other posting lists before and after the range
PoolBefore == { <<>>, <<130, 1>> }
PoolAfter == { <<>>, <<5>> }

Pooled(list, before, after) ==
  [list |-> list, index |-> before \o encodePostings(list, -1) \o after,
   offset |-> Len(before), length |-> Len(encodePostings(list, -1)),
   i |-> Len(before), prev |-> -1, onDoc |-> <<>>]

DecodeInit ==
  /\ WorkerAtRest
  /\ SidesOff
  /\ deploy = DeployMain
  /\ locate = NotLocated
  /\ batch = NoBatch
  /\ posting \in { Pooled(list, before, after) :
                      list \in PostingLists, before \in PoolBefore, after \in PoolAfter }

\* one turn of while (i < end): a group is read, prev += value, onDoc(prev)
DecodeGroup ==
  /\ posting.i < posting.offset + posting.length
  /\ \E g \in {readVarint(posting.index, posting.i, 0, 0)} :
       posting' = [posting EXCEPT !.i = g.i, !.prev = @ + g.value,
                                  !.onDoc = Append(@, posting.prev + g.value)]
  /\ UNCHANGED <<workerVars, assetVars, locate, batch, sideVars>>

DecodeNext == DecodeGroup

DecodeSpec == DecodeInit /\ [][DecodeNext]_vars

\* ------------------------------------------------------------------------
\* loadAssetsBatched over a list of assets, its loads settling in any order
\* ------------------------------------------------------------------------
MaxAssets == 4      \* assets in one call of loadAssetsBatched

\* the assets of the call, named by their hashes, and the bytes of each
BatchAssets == <<7, 5, 9, 3, 8>>
BufferOf(a) == 100 + a

\* the concurrency of the call: init passes 6
Concurrencies == {1, 2, 3, 6}

\* Math.max(1, Math.min(concurrency | 0, assets.length))
workerCount(concurrency, n) == Max2(1, Min2(concurrency, n))

\* const i = next; next += 1; if (i >= assets.length) return;
\* out[i] = await loadAsset(db, assets[i]): worker w takes the next index and
\* starts its load, or returns
RECURSIVE runFrom(_, _)
runFrom(b, ws) ==
  IF ws = <<>> THEN b
  ELSE LET w == Head(ws)
           i == b.next
       IN  runFrom(IF i >= Len(b.assets)
                   THEN [b EXCEPT !.next = i + 1, !.run[w] = -1]
                   ELSE [b EXCEPT !.next = i + 1, !.run[w] = i,
                                  !.started = Append(@, i)],
                   Tail(ws))

\* await Promise.all(...); return out
settledAll(b) ==
  IF b.pc = "running" /\ \A w \in DOMAIN b.run : b.run[w] = -1
  THEN [b EXCEPT !.pc = "resolved"] ELSE b

BatchInit ==
  /\ WorkerAtRest
  /\ SidesOff
  /\ deploy = DeployMain
  /\ locate = NotLocated
  /\ posting = NoPosting
  /\ batch = NoBatch

\* loadAssetsBatched(db, assets, concurrency, onProgress) is called: the
\* workers are started one after the other, each up to its first await
BatchCall(n, concurrency) ==
  /\ batch.pc = "idle"
  /\ batch' =
       IF n = 0 THEN [NoBatch EXCEPT !.pc = "resolved", !.concurrency = concurrency]
       ELSE runFrom([NoBatch EXCEPT !.pc = "running",
                                    !.assets = SubSeq(BatchAssets, 1, n),
                                    !.concurrency = concurrency,
                                    !.out = [i \in 1 .. n |-> 0],
                                    !.run = [w \in 1 .. workerCount(concurrency, n) |-> -1]],
                    [w \in 1 .. workerCount(concurrency, n) |-> w])
  /\ UNCHANGED <<workerVars, assetVars, locate, posting, sideVars>>

\* variant: the buffer is put in the first free place of out
outSet_push(out, i, buf) ==
  [j \in DOMAIN out |->
     IF out[j] = 0 /\ \A k \in 1 .. (j - 1) : out[k] # 0 THEN buf ELSE out[j]]

\* out[i] = ...
outSet(out, i, buf) == [out EXCEPT ![i + 1] = buf]

\* the load of worker w resolves: out[i] is set, done += 1, onProgress, and
\* the worker goes round its loop
BatchLoaded(w) ==
  /\ batch.pc \in {"running", "rejected"}
  /\ w \in DOMAIN batch.run /\ batch.run[w] >= 0
  /\ batch' =
       settledAll(runFrom([batch EXCEPT
                             !.out = outSet(@, batch.run[w],
                                            BufferOf(batch.assets[batch.run[w] + 1])),
                             !.done = @ + 1,
                             !.settled = Append(@, batch.run[w]),
                             !.progress = Append(@, batch.done + 1)],
                          <<w>>))
  /\ UNCHANGED <<workerVars, assetVars, locate, posting, sideVars>>

\* the load of worker w rejects: its run throws, which rejects the Promise.all
\* at once; the other workers go on
BatchFailed(w) ==
  /\ batch.pc \in {"running", "rejected"}
  /\ w \in DOMAIN batch.run /\ batch.run[w] >= 0
  /\ batch' = [batch EXCEPT !.run[w] = -2, !.pc = "rejected",
                            !.settled = Append(@, batch.run[w])]
  /\ UNCHANGED <<workerVars, assetVars, locate, posting, sideVars>>

BatchNext ==
  \/ \E n \in 0 .. MaxAssets, c \in Concurrencies : BatchCall(n, c)
  \/ \E w \in DOMAIN batch.run : BatchLoaded(w)
  \/ \E w \in DOMAIN batch.run : BatchFailed(w)

BatchSpec == BatchInit /\ [][BatchNext]_vars

\* ------------------------------------------------------------------------
\* C27  A search without any usable term and with identity filters takes no shard load and posts no progress when the loop takes it up, and is answered by a results message with total 0, hasMore false and no items, never by a failure.
\* ------------------------------------------------------------------------
EmptyAnswer(m) ==
  [type |-> "results", requestId |-> m.requestId, page |-> pageOf(m),
   size |-> sizeOf(m), total |-> 0, hasMore |-> FALSE, items |-> <<>>]

C27_EmptyIntent ==
  [][/\ (loopPc = "head" /\ loopPc' # loopPc /\ pendingSearch # NULL
          /\ EmptyIntent(pendingSearch))
        => /\ loopPc' = "resolved"
           /\ loads' = loads /\ indexCache' = indexCache
           /\ posted' = posted
     /\ (loopPc \in {"resolved", "rejected", "await"} /\ EmptyIntent(msg))
        => /\ loopPc = "resolved"
           /\ loopPc' # loopPc
              => /\ posted' = Append(posted, EmptyAnswer(msg))
                 /\ UNCHANGED <<loads, indexCache>>]_<<loopPc, posted>>

\* the query "a" was answered with the empty page while nothing had been loaded
C27_Witness ==
  /\ msg # NULL /\ EmptyIntent(msg) /\ msg.q # <<>>
  /\ posted # <<>> /\ posted[Len(posted)] = EmptyAnswer(msg)
  /\ loads = {} /\ indexCache = {} /\ idb = {}

\* ------------------------------------------------------------------------
\* C24  Preload runs only after ready was posted, has at most 2 loads of its own in flight, takes the shard ids in order so that none is requested twice, and never starts under a data-saver connection or an effective type of slow-2g or 2g.
\* ------------------------------------------------------------------------
\* the loads preloadIndex started (they carry no abort signal)
PreloadLoads == { l \in loads : l.sig = 0 }

PreloadSuppressed == conn.saveData \/ conn.effectiveType \in {"slow-2g", "2g"}

PreloadIdle ==
  /\ ~preloadStarted /\ PreloadLoads = {}
  /\ \A w \in Workers : worker[w].st = "off"

SingleTermAtHand ==
  /\ VectorAtHand
  /\ msg.sort = "relevance"
  /\ Len(parseQuery(msg.q).include) = 1

\* the hit counters and scores of the single-term path for the message at hand
SingleTermCounts ==
  LET parsed == parseQuery(msg.q)
  IN  countHits(corpus, msg,
                IF Len(parsed.exclude) > 0
                THEN buildExcludeMask(corpus, parsed.exclude, {}) ELSE {},
                foundIdxs(corpus, uniqNgrams(parsed.include[1])))

SingleTermScoresAtHand ==
  singleTermScores(corpus, parseQuery(msg.q).include[1], SingleTermCounts,
                   Len(uniqNgrams(parseQuery(msg.q).include[1])))

InTitle(d, t) == Contains(normText(Corpora[corpus][d].title), t)
InAliases(d, t) == Contains(normText(Corpora[corpus][d].aliases), t)
InAuthors(d, t) == Contains(normText(Corpora[corpus][d].authors), t)

PositionOf(d) == CHOOSE i \in DOMAIN cache.docIds : cache.docIds[i] = d

\* d holds t only in its aliases, e holds it in its title, all else equal
AliasAgainstTitle(d, e, t) ==
  /\ InAliases(d, t) /\ ~InTitle(d, t) /\ InTitle(e, t)
  /\ SingleTermCounts[d] = SingleTermCounts[e]
  /\ InAuthors(d, t) <=> InAuthors(e, t)

C28_SingleTermScoring ==
  SingleTermAtHand =>
    LET t == parseQuery(msg.q).include[1]
        listed == Range(cache.docIds)
    IN  /\ \A d \in listed :
             InTitle(d, t) =>
               SingleTermScoresAtHand[d] >= ScoreScale + (14 * ScoreScale) \div 10
        /\ \A d, e \in listed :
             AliasAgainstTitle(d, e, t) =>
               /\ SingleTermScoresAtHand[d] < SingleTermScoresAtHand[e]
               /\ PositionOf(e) < PositionOf(d)

\* a title match and an alias-only match of the same term are both listed
C28_Witness ==
  /\ SingleTermAtHand
  /\ \E d, e \in Range(cache.docIds) :
       AliasAgainstTitle(d, e, parseQuery(msg.q).include[1])

\* ------------------------------------------------------------------------
\* C30  After every evaluation that returned, whatever the query shape, the sort and the state of the result cache, every hit counter and every score is zero and the touched list is empty; the resets wrote only docs the evaluation recorded as touched or as candidates, all of them docs of the posting lists of the query's tokens.
\* ------------------------------------------------------------------------
\* the docs listed under some token of the terms of the message
PostingDocs(m) ==
  { d \in DocIds(corpus) :
      \E idx \in collectTokenIdxs(corpus, parseQuery(m.q).include
                                             \o parseQuery(m.q).exclude) :
        d \in Range(Postings(corpus, idx)) }

C30_ScratchReset ==
  /\ evaluated # {} =>
       /\ \A d \in DocIds(corpus) :
            scratch.counts[d] = 0 /\ scratch.scores[d] = 0
       /\ scratch.touched = {}
       /\ scratch.writes \subseteq scratch.recorded
  /\ VectorAtHand => scratch.recorded \subseteq PostingDocs(msg)

\* a single-term relevance evaluation reset some docs and left others alone
C30_Witness ==
  /\ VectorAtHand
  /\ msg.sort = "relevance" /\ Len(parseQuery(msg.q).include) = 1
  /\ scratch.writes # {} /\ scratch.writes # DocIds(corpus)
  /\ scratch.writes = Range(cache.docIds)

\* ------------------------------------------------------------------------
\* C21  Fetch rule: when the lookup finds an entry under the asset's hash the call returns that entry, issues no GET and starts no cache write; when it finds none the call issues one GET, and once the body is decoded it starts a cache write of the decoded body under the hash and returns the decoded body.
\* ------------------------------------------------------------------------
Decoded == maybeGunzipArrayBuffer(call.buf, hasDecompressionStream).data

C21_FetchRule ==
  /\ [](/\ call.gets <= 1
        /\ call.gets = 0 => call.put = NoEntry
        /\ call.pc = "done" => call.result # NoEntry)
  /\ [][/\ (call.pc = "get" /\ call'.pc # "get")
            => IF store[asset.sha256] # NoEntry
               THEN /\ call'.pc \in {"done", "failed"}
                    /\ call'.pc = "done" => call'.result = store[asset.sha256]
                    /\ call'.gets = 0 /\ writes' = writes
               ELSE /\ call'.pc \in {"fetch", "failed"}
                    /\ call'.pc = "fetch" => call'.gets = 1
                    /\ writes' = writes
        /\ (call.pc = "gunzip" /\ call'.pc = "done")
            => /\ call'.result = Decoded /\ call'.put = Decoded
               /\ writes' = writes \cup {[key |-> asset.sha256, data |-> Decoded]}
               /\ call'.gets = 1]_<<call, writes>>

\* the second call is served from the entry the first call wrote, without a GET
C21_Witness ==
  /\ calls = 2 /\ call.pc = "done" /\ call.gets = 0
  /\ store["G"] # NoEntry
  /\ call.result = store[asset.sha256] /\ writes = {}

\* ------------------------------------------------------------------------
\* C29  Transport transparency: where the runtime can inflate, a call that got the body of the asset, sent as it is or as gzip, does not fail, returns exactly the uncompressed body and writes exactly that body to the cache.
\* ------------------------------------------------------------------------
C29_TransportTransparency ==
  hasDecompressionStream =>
    /\ call.pc = "failed" => call.buf = <<>>
    /\ call.pc = "done" => call.result = asset.raw
    /\ \A w \in writes : w.data = asset.raw

\* ------------------------------------------------------------------------
\* C22  A cache write is started in the very step in which its load returns, so the load never waits for it, and a write that settles, completed or rejected, posts no message and changes nothing of init, of the loads, of the index or of any search.
\* ------------------------------------------------------------------------
PutStarted(key) ==
  Len(txq') = Len(txq) + 1 /\ txq'[Len(txq')] = PutOf(key)

C22_WriteNeverMatters ==
  [][/\ (txq # <<>> /\ txq' = Tail(txq) /\ Head(txq)[1] = "put")
        => UNCHANGED <<posted, stateLoaded, initPc, initAssets, loads, indexCache,
                       searching, pendingSearch, loopPc, msg, waiting, loopErr,
                       cache, evaluated, transportFailed>>
     /\ \A sh \in Shards :
          PutStarted(IndexKey(sh))
            => /\ sh \notin indexCache /\ sh \in indexCache'
               /\ \E l \in loads : l.shard = sh /\ l \notin loads'
     /\ \A a \in DOMAIN initAssets :
          PutStarted(a) => initAssets[a] = "pending" /\ initAssets'[a] = "ok"]_txq

\* init and a search succeeded although the writes of dict and of shard 1 were rejected
C22_Witness ==
  /\ stateLoaded /\ txq = <<>>
  /\ <<"dict", 0>> \notin others
  /\ 1 \in indexCache /\ 1 \notin idb
  /\ \E i \in DOMAIN posted : IsResults(posted[i]) /\ posted[i].total > 0

\* ------------------------------------------------------------------------
\* C23  Pruning is queued only after ready was posted; when it completes, the keys left in the store are exactly the keys held before that belong to the manifest (tags, dict, every meta shard, every index shard); no other step removes a key, so an entry of the manifest is never deleted, whatever loads and cache writes run alongside.
\* ------------------------------------------------------------------------
StoreKeys == others \cup { IndexKey(sh) : sh \in idb }

IsManifestKey(k) ==
  \/ k \in {<<"tags", 0>>, <<"dict", 0>>}
  \/ k[1] = "meta" /\ k[2] \in 0 .. (Len(deploy.shards) - 1)
  \/ k[1] = "index" /\ k[2] \in Shards

PruneQueued == \E i \in DOMAIN txq : txq[i] = PruneTx

C23_Pruning ==
  /\ []((prunePc # "off" \/ PruneQueued) => ReadyPosts # {})
  /\ [][/\ \A k \in StoreKeys : IsManifestKey(k) => k \in StoreKeys'
        /\ IF prunePc = "queued" /\ prunePc' = "done"
           THEN StoreKeys' = { k \in StoreKeys : IsManifestKey(k) }
           ELSE StoreKeys \subseteq StoreKeys']_<<others, idb, prunePc>>

\* the old key is gone and the cached shard is kept while a load and a write are under way
C23_Witness ==
  /\ prunePc = "done"
  /\ OldKey \notin others /\ 0 \in idb
  /\ txq # <<>> /\ loads # {}

\* ------------------------------------------------------------------------
\* C33  Sort-mode independence: for a query with at least one include term, whatever its tag masks and status filters, the evaluations under relevance, id_desc and id_asc give result vectors of the same length over the same set of doc-ids, hence the same total; only the order differs.
\* ------------------------------------------------------------------------
\* the evaluation of the message at hand under another sort, result cache empty
UnderSort(sort) == searchSync(corpus, indexCache, NULL, [msg EXCEPT !.sort = sort])

C33_SortIndependence ==
  (VectorAtHand /\ Len(parseQuery(msg.q).include) >= 1)
  => \A sort \in SortModes :
       /\ ~UnderSort(sort).error
       /\ Range(UnderSort(sort).cache.docIds) = Range(cache.docIds)
       /\ Len(UnderSort(sort).cache.docIds) = Len(cache.docIds)
       /\ UnderSort(sort).result.total = Len(cache.docIds)

\* a filtered multi-term search by relevance with two docs or more, in
\* another order than by descending id, and a doc the filters keep out
C33_Witness ==
  /\ VectorAtHand
  /\ Len(parseQuery(msg.q).include) >= 2
  /\ ~AllIdentity(msg)
  /\ msg.sort = "relevance"
  /\ Len(cache.docIds) >= 2
  /\ UnderSort("id_desc").cache.docIds # cache.docIds
  /\ \E d \in DocIds(corpus) : ~FilterOk(msg, buildItem(corpus, d))

\* ------------------------------------------------------------------------
\* C34  The result vector in the result cache holds no doc-id twice and only doc-ids in [0, count), for every query shape, multi-term queries with a doc that matches several terms included.
\* ------------------------------------------------------------------------
C34_VectorDistinct ==
  cache # NULL =>
    /\ \A i, j \in DOMAIN cache.docIds : i # j => cache.docIds[i] # cache.docIds[j]
    /\ \A i \in DOMAIN cache.docIds :
         cache.docIds[i] >= 0 /\ cache.docIds[i] < totalCount(corpus)

\* a multi-term vector with a doc that reaches the threshold of two terms
C34_Witness ==
  /\ VectorAtHand
  /\ Len(parseQuery(msg.q).include) >= 2
  /\ \E i \in DOMAIN cache.docIds :
       \E t, u \in DOMAIN parseQuery(msg.q).include :
         /\ t # u
         /\ MatchesKnownBigrams(corpus, parseQuery(msg.q).include[t], cache.docIds[i])
         /\ MatchesKnownBigrams(corpus, parseQuery(msg.q).include[u], cache.docIds[i])

\* ------------------------------------------------------------------------
\* C37  Doc-id to meta shard: shardShiftForDocs gives a shift exactly for the widths that are a power of two, the exponent; and for such a width the shard and the slot found for a doc-id below the count by shift and mask are those of the division, shard = floor(docId / width), slot = docId - shard * width.
\* ------------------------------------------------------------------------
IsPowerOfTwo(n) == \E k \in 0 .. 30 : n = 2 ^ k

C37_ShiftMask ==
  /\ shardShiftForDocs(metaShardDocsOf(deploy)) # -1
       <=> IsPowerOfTwo(metaShardDocsOf(deploy))
  /\ shardShiftForDocs(metaShardDocsOf(deploy)) # -1
       => 2 ^ shardShiftForDocs(metaShardDocsOf(deploy)) = metaShardDocsOf(deploy)
  /\ (locate.docId >= 0 /\ IsPowerOfTwo(metaShardDocsOf(deploy)))
       => /\ locate.shardId = locate.docId \div metaShardDocsOf(deploy)
          /\ locate.localDocId
               = locate.docId - locate.shardId * metaShardDocsOf(deploy)

\* doc 65535 with shards of 1024 docs: slot 1023 of shard 63
C37_Witness ==
  /\ metaShardDocsOf(deploy) = 1024
  /\ locate = [docId |-> 65535, shardId |-> 63, localDocId |-> 1023]

\* ------------------------------------------------------------------------
\* C39  Posting decode round trip: for a strictly increasing list of doc-ids >= 0 encoded as the LEB128 of its deltas from prev = -1, decodePostings calls onDoc with the elements of the list in order, so with strictly increasing doc-ids, and stops having read exactly the length bytes from offset.
\* ------------------------------------------------------------------------
Decoding == posting.index # <<>> \/ posting.list # <<>>

DecodeDone == posting.i >= posting.offset + posting.length

C39_DecodeRoundTrip ==
  /\ Len(posting.onDoc) <= Len(posting.list)
  /\ posting.onDoc = SubSeq(posting.list, 1, Len(posting.onDoc))
  /\ IsAscending(posting.onDoc)
  /\ posting.i <= posting.offset + posting.length
  /\ DecodeDone => posting.onDoc = posting.list

\* three doc-ids with deltas of two, three and five bytes, decoded from the
\* middle of a pool
C39_Witness ==
  /\ DecodeDone
  /\ posting.onDoc = <<129, 16384, 2147483646>>
  /\ posting.offset > 0
  /\ posting.offset + posting.length < Len(posting.index)

\* ------------------------------------------------------------------------
\* C36  loadAssetsBatched starts no load twice, never has more than concurrency loads in flight, and reports the progress counts 1, 2, ... each once and in order; when it returns, every asset of its input was loaded exactly once, the counts 1..n were reported, and the buffers are in the order of the input assets, in whatever order the loads completed.
\* ------------------------------------------------------------------------
InFlight == { w \in DOMAIN batch.run : batch.run[w] >= 0 }

C36_Batched ==
  /\ \A i, j \in DOMAIN batch.started : i # j => batch.started[i] # batch.started[j]
  /\ Range(batch.started) \subseteq 0 .. (Len(batch.assets) - 1)
  /\ batch.pc # "idle" => Cardinality(InFlight) <= batch.concurrency
  /\ batch.progress = [k \in 1 .. batch.done |-> k]
  /\ batch.done <= Len(batch.assets)
  /\ batch.pc = "resolved" =>
       /\ Range(batch.started) = 0 .. (Len(batch.assets) - 1)
       /\ Len(batch.started) = Len(batch.assets)
       /\ batch.done = Len(batch.assets)
       /\ batch.out = [i \in DOMAIN batch.assets |-> BufferOf(batch.assets[i])]

\* four assets, two at a time, returned in input order although the second
\* completed before the first and the fourth before the third
C36_Witness ==
  /\ batch.pc = "resolved"
  /\ Len(batch.assets) = 4 /\ batch.concurrency = 2
  /\ batch.settled = <<1, 0, 3, 2>>

\* ------------------------------------------------------------------------
\* C31  A search failure is posted for a search only if a cache read or a network fetch failed for a reason other than an abort: every failure message reports a transport failure, none the abort of another search, and none is posted unless a read or a fetch has failed.
\* ------------------------------------------------------------------------
C31_FailureOnlyOnTransport ==
  \A i \in DOMAIN posted :
     IsFailure(posted[i]) => (posted[i].reason = "transport" /\ transportFailed)

\* ------------------------------------------------------------------------
\* The worker with the searches that arrive too early remembered: gate holds
\* the requestId of every search message received while state was null
\* ------------------------------------------------------------------------
GateInit ==
  /\ WorkerAtRest
  /\ deploy = DeployMain
  /\ UnitsOff
  /\ LoadOff

\* the one query sent here: "cd -bc"
GateMessages(requestId) ==
  { Search(requestId, << <<99, 100>>, <<45, 98, 99>> >>, <<>>, <<>>, "any", "any", "any", "any",
           "relevance", 1, 20) }

GateReceive(m) ==
  /\ onmessage(m)
  /\ gate' = IF stateLoaded THEN gate ELSE gate \cup {m.requestId}
  /\ UNCHANGED <<locate, posting, batch, view>>

GateNext ==
  \/ InitMessage
  \/ \E outcome \in {"ok", "404", "transport"} : InitManifest(outcome)
  \/ \E ok \in BOOLEAN : InitOpenDb(ok)
  \/ \E a \in DOMAIN initAssets, ok \in BOOLEAN : InitAsset(a, ok)
  \/ InitDone
  \/ \E m \in GateMessages(received + 1) : GateReceive(m)
  \/ LoopHead
  \/ LoopResolved
  \/ LoopRejected
  \/ \E l \in loads : IdbGetDone(l)
  \/ \E l \in loads : IdbGetFail(l)
  \/ \E l \in loads, gzip \in BOOLEAN, stored \in BOOLEAN : FetchDone(l, gzip, stored)
  \/ \E l \in loads, stored \in BOOLEAN : GunzipDone(l, stored)
  \/ \E l \in loads : FetchFail(l)
  \/ PreloadStart
  \/ \E w \in Workers : WorkerStep(w)

GateSpec == GateInit /\ [][GateNext]_vars

\* ------------------------------------------------------------------------
\* C35: a search message received while state is null (before ready, or
\* after init has failed) is discarded: it is not kept in pendingSearch nor
\* taken by the loop, no results and no failure message carries its
\* requestId at any later time, it is never evaluated, and as long as only
\* such messages have arrived nothing but the messages of init is posted
\* ------------------------------------------------------------------------
IsSearchOutput(o) == IsResults(o) \/ IsFailure(o) \/ (o.type = "progress" /\ o.stage = "loading")

C35_EarlySearchDiscarded ==
  /\ pendingSearch # NULL => pendingSearch.requestId \notin gate
  /\ msg # NULL => msg.requestId \notin gate
  /\ evaluated \cap gate = {}
  /\ \A i \in DOMAIN posted :
        (IsResults(posted[i]) \/ IsFailure(posted[i])) => posted[i].requestId \notin gate
  /\ Cardinality(gate) = received =>
        /\ ~searching
        /\ \A i \in DOMAIN posted : ~IsSearchOutput(posted[i])

\* a search was discarded before ready, and a later one has been answered
C35_Witness ==
  /\ gate = {1}
  /\ stateLoaded
  /\ \E i \in DOMAIN posted : IsResults(posted[i]) /\ posted[i].requestId = 2

\* ------------------------------------------------------------------------
\* C32  Background preload is independent of search cancellation: once it
\* has started, and if no cache read and no fetch fails for a transport
\* reason, every index shard ends up in indexCache. Stated for the states in
\* which nothing is left to run: when preload has started, its workers have
\* ended, no load is pending and the search loop is idle, every shard is in
\* indexCache unless a transport failure occurred
\* ------------------------------------------------------------------------
PreloadEnded == preloadStarted /\ \A w \in Workers : worker[w].st \in {"done", "failed"}

Quiet == loads = {} /\ loopPc = "idle" /\ ~MicroPending

C32_PreloadFillsCache ==
  (PreloadEnded /\ Quiet /\ ~transportFailed) => indexCache = Shards

\* ------------------------------------------------------------------------
\* The page on its own, after ready: the query box, the debounce timer, the
\* load-more button and the sentinel that loads more, the current* variables
\* and the list last rendered.  The worker is the evaluator with every shard
\* loaded; it takes the search messages in order and answers each with its
\* results message or, superseded or failed, with none.  The filters stay
\* at "any" and the sort at relevance.
\* ------------------------------------------------------------------------
\* requests the page may send
MaxSent == 3

\* size: 20 in doSearch, scaled to the four docs of the corpus
PageSize == 2

\* what the query box may hold: "", "ab", "cd"
ViewQueries == { <<>>, << <<97, 98>> >>, << <<99, 100>> >> }

\* no part of two characters or more (the filters are at "any")
shouldSkipSearch(q) == ~ \E i \in DOMAIN q : Len(q[i]) >= 2

ViewSearch(requestId, q, page) ==
  Search(requestId, q, <<>>, <<>>, "any", "any", "any", "any", "relevance", page, PageSize)

renderResults(v) ==
  IF v.currentItems = <<>>
  THEN [v EXCEPT !.shown = <<>>, !.btnHidden = TRUE]
  ELSE [v EXCEPT !.shown = v.currentItems,
                 !.btnHidden = ~(v.currentHasMore /\ ~v.autoLoadSupported),
                 !.btnDisabled = FALSE]

\* doSearch sends a message unless it is a first page that is skipped
sends(v, page) == ~(page = 1 /\ shouldSkipSearch(v.q))

doSearch(v, page) ==
  LET v1 == IF page = 1 THEN [v EXCEPT !.loadingMore = FALSE] ELSE v
      v2 == [v1 EXCEPT !.currentRequestId = @ + 1, !.currentPage = page]
      v3 == IF page > 1
            THEN [v2 EXCEPT !.loadingMore = IF v.autoLoadSupported THEN TRUE ELSE @,
                            !.btnDisabled = TRUE]
            ELSE [v2 EXCEPT !.shown = <<>>, !.btnHidden = TRUE, !.btnDisabled = TRUE]
  IN  IF ~sends(v, page)
      THEN renderResults([v1 EXCEPT !.currentItems = <<>>, !.currentHasMore = FALSE])
      ELSE [v3 EXCEPT !.toWorker = Append(@, ViewSearch(v2.currentRequestId, v.q, page))]

\* if (msg.page === 1) currentItems = msg.items; else currentItems = [...currentItems, ...msg.items]
itemsAfter(items, m) == IF m.page = 1 THEN m.items ELSE items \o m.items

\* worker.onmessage, a results message
onResults(v, m) ==
  IF m.requestId # v.currentRequestId THEN v
  ELSE renderResults([v EXCEPT !.loadingMore = FALSE,
                               !.currentHasMore = m.hasMore,
                               !.currentItems = itemsAfter(v.currentItems, m)])

ViewFrame == UNCHANGED <<workerVars, assetVars, locate, posting, batch, gate>>

ViewInit ==
  /\ WorkerAtRest
  /\ deploy = DeployMain
  /\ locate = NotLocated
  /\ posting = NoPosting
  /\ batch = NoBatch
  /\ gate = {}
  /\ view \in { [NoView EXCEPT !.autoLoadSupported = a] : a \in BOOLEAN }

\* the input event outside a composition: debouncedSearch
TypeQuery(q) ==
  /\ q # view.q
  /\ view' = [view EXCEPT !.q = q, !.debounceTimer = TRUE]
  /\ ViewFrame

\* the debounce timer fires: doSearch(1)
DebounceFire ==
  /\ view.debounceTimer
  /\ sends(view, 1) => view.currentRequestId < MaxSent
  /\ view' = doSearch([view EXCEPT !.debounceTimer = FALSE], 1)
  /\ ViewFrame

\* Enter in the query box, or the search button: doSearch(1)
SubmitSearch ==
  /\ sends(view, 1) => view.currentRequestId < MaxSent
  /\ view' = doSearch(view, 1)
  /\ view' # view
  /\ ViewFrame

\* the load-more button, shown and enabled
LoadMoreClick ==
  /\ ~view.btnHidden /\ ~view.btnDisabled
  /\ view.currentHasMore
  /\ view.currentRequestId < MaxSent
  /\ view' = doSearch(view, view.currentPage + 1)
  /\ ViewFrame

\* the sentinel comes into view (the observer, or checkAutoLoad after a
\* render): maybeAutoLoadMore
AutoLoad ==
  /\ view.autoLoadSupported
  /\ view.currentHasMore
  /\ ~view.loadingMore
  /\ view.currentRequestId < MaxSent
  /\ view' = doSearch(view, view.currentPage + 1)
  /\ ViewFrame

\* the worker takes the oldest search message and posts its results, or
\* nothing when the search was superseded or has failed
WorkerAnswer(answers) ==
  /\ view.toWorker # <<>>
  /\ view' = [view EXCEPT
                !.toWorker = Tail(@),
                !.toPage = IF answers
                           THEN Append(@, searchSync(2, Shards, NULL, Head(view.toWorker)).result)
                           ELSE @]
  /\ ViewFrame

\* the page receives the oldest results message
PageResults ==
  /\ view.toPage # <<>>
  /\ view' = onResults([view EXCEPT !.toPage = Tail(@)], Head(view.toPage))
  /\ ViewFrame

ViewNext ==
  \/ \E q \in ViewQueries : TypeQuery(q)
  \/ DebounceFire
  \/ SubmitSearch
  \/ LoadMoreClick
  \/ AutoLoad
  \/ \E answers \in BOOLEAN : WorkerAnswer(answers)
  \/ PageResults

ViewSpec == ViewInit /\ [][ViewNext]_vars

\* ------------------------------------------------------------------------
\* C38  On the page side the displayed item list is always a prefix, pages
\* 1..n concatenated, of the result vector of one single request plan
\* ------------------------------------------------------------------------
\* the ids of the result vector of the plan with query q
ViewVector(q) ==
  LET all == searchSync(2, Shards, NULL, [ViewSearch(1, q, 1) EXCEPT !.size = 100]).result
  IN  [i \in DOMAIN all.items |-> all.items[i].id]

ShownIds == [i \in DOMAIN view.shown |-> view.shown[i].id]

IsPagesOf(ids, q) ==
  \E n \in 0 .. 3 :
     ids = SubSeq(ViewVector(q), 1, Min2(Len(ViewVector(q)), n * PageSize))

C38_ShownIsPrefixOfOnePlan == \E q \in ViewQueries : IsPagesOf(ShownIds, q)

====
